---- MODULE Spec2Model ----
(***************************************************************************)
(* A model of the BambooHR MCP server (src/main.go): the tolerant JSON     *)
(* decoders FlexibleFloat and FlexibleNotes, and the values they exchange  *)
(* with encoding/json.                                                     *)
(*                                                                         *)
(* Strings are sequences of atoms.  An atom is a character ("1", ".", "-") *)
(* or, for object keys and the special float spellings, a whole word       *)
(* ("from", "NaN"); ": " and "; " are the two separators the code writes.  *)
(* Concatenation of strings is concatenation of sequences.                 *)
(*                                                                         *)
(* A JSON wire value is a record with a tag t and one payload field per    *)
(* shape; the payload fields a shape does not use are empty.  An object    *)
(* keeps its members in wire order; member names are pairwise distinct.    *)
(***************************************************************************)
EXTENDS Integers, Sequences, FiniteSets, TLC

VARIABLES
    data,   \* the wire value handed to UnmarshalJSON
    f,      \* the FlexibleFloat target               (src/main.go:155)
    fn,     \* the FlexibleNotes target, fn.Notes     (src/main.go:80-82)
    err,    \* the error the last call returned
    out,    \* the bytes the last MarshalJSON returned, as a wire value
    op,     \* the last call made: "new" before any
    prev,   \* the outcome of the preceding UnmarshalJSON of the same data
    calls,  \* number of UnmarshalJSON calls made on data
    back,   \* the outcome of decoding out, the bytes MarshalJSON returned
    pc,     \* the server: "idle", "waiting" for the upstream, or "done"
    call,   \* the tool invocation being handled, and the clock it reads
    reqs,   \* the HTTP requests the invocation has issued
    resp,   \* the upstream outcome of the request
    ret,    \* what the client operation returned: (result, error)
    res,    \* what the handler returned: (*mcp.CallToolResult, error)
    cfg,    \* the client the process holds, *BambooHRClient (src/main.go:21-26)
    main,   \* the process: where main is, its arguments and environment
    inv     \* the invocations the server handles at once, one to a worker

\* the variables of the decoder specifications
codecVars == <<data, f, fn, err, out, op, prev, calls, back>>

\* the variables of the server specification
serverVars == <<pc, call, reqs, resp, ret, res>>

\* the variables of the process specifications
processVars == <<cfg, main, inv>>

vars == <<data, f, fn, err, out, op, prev, calls, back, pc, call, reqs, resp, ret, res,
          cfg, main, inv>>

---------------------------------------------------------------------------
(* Bounds of the model *)

\* longest number literal / numeric string, in atoms
MaxLen == 3

\* most members of an object on the wire
MaxMembers == 3

\* most elements of an array on the wire
MaxElems == 2

\* most UnmarshalJSON calls on one wire value
MaxDecodes == 2

---------------------------------------------------------------------------
(* Strings *)

EmptyStr == <<>>

\* all sequences over S of length 0..n
SeqUpTo(S, n) == UNION {[1..k -> S] : k \in 0..n}

\* number of positions at which frag occurs in s as a contiguous run
Occurrences(frag, s) ==
    Cardinality({i \in 1..(Len(s) - Len(frag) + 1) :
                    SubSeq(s, i, i + Len(frag) - 1) = frag})

---------------------------------------------------------------------------
(* JSON wire values *)

JNull == [t |-> "null", b |-> FALSE, s |-> <<>>, elems |-> <<>>, members |-> <<>>]

JBool(x) == [t |-> "bool", b |-> x, s |-> <<>>, elems |-> <<>>, members |-> <<>>]

\* a number, by its literal text
JNum(lit) == [t |-> "num", b |-> FALSE, s |-> lit, elems |-> <<>>, members |-> <<>>]

JStr(str) == [t |-> "str", b |-> FALSE, s |-> str, elems |-> <<>>, members |-> <<>>]

JArr(es) == [t |-> "arr", b |-> FALSE, s |-> <<>>, elems |-> es, members |-> <<>>]

\* an object, by its members [k |-> name, v |-> value] in wire order
JObj(ms) == [t |-> "obj", b |-> FALSE, s |-> <<>>, elems |-> <<>>, members |-> ms]

\* no bytes: the result of a call that returns none, and the wire value
\* of a field the response does not hold
NoBytes == [t |-> "none", b |-> FALSE, s |-> <<>>, elems |-> <<>>, members |-> <<>>]

Member(key, val) == [k |-> key, v |-> val]

---------------------------------------------------------------------------
(* Errors *)

\* err == nil
NilErr == [kind |-> "nil", s |-> <<>>]

\* *json.UnmarshalTypeError: the wire shape does not fit the Go type
TypeErr == [kind |-> "type", s |-> <<>>]

\* fmt.Errorf("cannot parse '%s' as float: %w", stringVal, err)
ParseErr(str) == [kind |-> "parse", s |-> str]

\* fmt.Errorf("cannot unmarshal notes field")
NotesErr == [kind |-> "notes", s |-> <<>>]

\* *json.UnsupportedValueError: NaN and the infinities have no JSON form
UnsupportedValueErr == [kind |-> "unsupported", s |-> <<>>]

---------------------------------------------------------------------------
(* float64 values: finite decimals  (-1)^neg * mant * 10^exp  with mant    *)
(* free of trailing zeros, the two infinities, and NaN.  A literal of at   *)
(* most MaxLen atoms is short enough for distinct decimals to be distinct  *)
(* float64 values, so the decimal stands for the float64.                  *)

Finite(n, m, e) == [class |-> "finite", neg |-> n, mant |-> m, exp |-> e]

Inf(n) == [class |-> "inf", neg |-> n, mant |-> 0, exp |-> 0]

NaN == [class |-> "nan", neg |-> FALSE, mant |-> 0, exp |-> 0]

\* FlexibleFloat(0), also the zero value of a FlexibleFloat
Zero == Finite(FALSE, 0, 0)

RECURSIVE StripZeros(_, _, _)
StripZeros(n, m, e) ==
    IF m = 0 THEN Finite(n, 0, 0)
    ELSE IF m % 10 = 0 THEN StripZeros(n, m \div 10, e + 1)
    ELSE Finite(n, m, e)

Digits == {"0", "1", "2", "3", "4", "5", "6", "7", "8", "9"}

IsDigit(c) == c \in Digits

DigitVal(c) ==
    CASE c = "0" -> 0 [] c = "1" -> 1 [] c = "2" -> 2 [] c = "3" -> 3
      [] c = "4" -> 4 [] c = "5" -> 5 [] c = "6" -> 6 [] c = "7" -> 7
      [] c = "8" -> 8 [] c = "9" -> 9

DigitChar(d) == <<"0", "1", "2", "3", "4", "5", "6", "7", "8", "9">>[d + 1]

RECURSIVE DigitsVal(_)
DigitsVal(ds) ==
    IF ds = <<>> THEN 0
    ELSE 10 * DigitsVal(SubSeq(ds, 1, Len(ds) - 1)) + DigitVal(ds[Len(ds)])

RECURSIVE IntDigits(_)
IntDigits(n) ==
    IF n < 10 THEN <<DigitChar(n)>>
    ELSE IntDigits(n \div 10) \o <<DigitChar(n % 10)>>

RECURSIVE Zeros(_)
Zeros(n) == IF n <= 0 THEN <<>> ELSE <<"0">> \o Zeros(n - 1)

\* the positions of "." in s
Dots(s) == {i \in 1..Len(s) : s[i] = "."}

\* s without a leading "-"
Unsigned(s) == IF s # <<>> /\ s[1] = "-" THEN Tail(s) ELSE s

\* strconv.ParseFloat(s, 64): [ok, v].  It takes an optional sign, then
\* either digits with at most one "." and at least one digit, or one of
\* the special spellings; anything else, or anything left over, is a
\* syntax error.
ParseFloat(s) ==
    LET neg  == s # <<>> /\ s[1] = "-"
        r    == Unsigned(s)
        dots == Dots(r)
        frac == IF dots = {} THEN 0 ELSE Len(r) - (CHOOSE i \in dots : TRUE)
    IN  IF s = <<"NaN">> THEN [ok |-> TRUE, v |-> NaN]
        ELSE IF r = <<"Inf">> THEN [ok |-> TRUE, v |-> Inf(neg)]
        ELSE IF /\ Cardinality(dots) <= 1
                /\ Len(r) - Cardinality(dots) >= 1
                /\ \A i \in 1..Len(r) : i \in dots \/ IsDigit(r[i])
             THEN [ok |-> TRUE,
                   v  |-> StripZeros(neg, DigitsVal(SelectSeq(r, IsDigit)), -frac)]
        ELSE [ok |-> FALSE, v |-> Zero]

\* strconv.AppendFloat(b, f, 'f', -1, 64) as encoding/json calls it for a
\* finite value of moderate size: sign, integer digits, "." and fraction
\* digits when there are any.
FormatFloat(v) ==
    LET ds   == IntDigits(v.mant)
        pad  == IF v.exp < 0 THEN Zeros(1 - v.exp - Len(ds)) \o ds ELSE ds
        cut  == Len(pad) + v.exp
        sign == IF v.neg THEN <<"-">> ELSE <<>>
    IN  IF v.exp >= 0 THEN sign \o ds \o Zeros(v.exp)
        ELSE sign \o SubSeq(pad, 1, cut) \o <<".">> \o SubSeq(pad, cut + 1, Len(pad))

\* the grammar of a JSON number (without exponent part)
IsJSONNumber(lit) ==
    LET r    == Unsigned(lit)
        dots == Dots(r)
        int  == IF dots = {} THEN r ELSE SubSeq(r, 1, (CHOOSE i \in dots : TRUE) - 1)
        frac == IF dots = {} THEN <<>>
                ELSE SubSeq(r, (CHOOSE i \in dots : TRUE) + 1, Len(r))
    IN  /\ Cardinality(dots) <= 1
        /\ \A i \in 1..Len(r) : i \in dots \/ IsDigit(r[i])
        /\ int # <<>>
        /\ Len(int) > 1 => int[1] # "0"
        /\ dots # {} => frac # <<>>

---------------------------------------------------------------------------
(* encoding/json, as the decoders call it on a scalar target *)

\* json.Unmarshal(data, &floatVal) with floatVal float64: a number is
\* parsed from its literal, null leaves the target alone and is no error,
\* every other shape is an UnmarshalTypeError.
JSONUnmarshalFloat64(d) ==
    IF d.t = "num" THEN [err |-> NilErr, v |-> ParseFloat(d.s).v]
    ELSE IF d.t = "null" THEN [err |-> NilErr, v |-> Zero]
    ELSE [err |-> TypeErr, v |-> Zero]

\* json.Unmarshal(data, &stringVal) with stringVal string: a string gives
\* its text, null leaves the target alone and is no error, every other
\* shape is an UnmarshalTypeError.
JSONUnmarshalString(d) ==
    IF d.t = "str" THEN [err |-> NilErr, v |-> d.s]
    ELSE IF d.t = "null" THEN [err |-> NilErr, v |-> EmptyStr]
    ELSE [err |-> TypeErr, v |-> EmptyStr]

\* json.Marshal(x) with x float64
JSONMarshalFloat64(v) ==
    IF v.class = "finite" THEN [err |-> NilErr, bytes |-> JNum(FormatFloat(v))]
    ELSE [err |-> UnsupportedValueErr, bytes |-> NoBytes]

---------------------------------------------------------------------------
(* FlexibleFloat *)

FlexibleFloat_UnmarshalJSON_IgnoreErr(d, f0) ==
    LET asFloat  == JSONUnmarshalFloat64(d)
        asString == JSONUnmarshalString(d)
        parsed   == ParseFloat(asString.v)
    IN  IF asFloat.err = NilErr THEN [err |-> NilErr, f |-> asFloat.v]
        ELSE IF asString.v = EmptyStr THEN [err |-> NilErr, f |-> Zero]
        ELSE IF ~parsed.ok THEN [err |-> ParseErr(asString.v), f |-> f0]
        ELSE [err |-> NilErr, f |-> parsed.v]

\* func (f *FlexibleFloat) UnmarshalJSON(data []byte) error
\* f0 is *f before the call; the result is the error and *f after it.
FlexibleFloat_UnmarshalJSON(d, f0) ==
    LET asFloat  == JSONUnmarshalFloat64(d)
        asString == JSONUnmarshalString(d)
        parsed   == ParseFloat(asString.v)
    IN  IF asFloat.err = NilErr THEN [err |-> NilErr, f |-> asFloat.v]
        ELSE IF asString.err # NilErr THEN [err |-> asString.err, f |-> f0]
        ELSE IF asString.v = EmptyStr THEN [err |-> NilErr, f |-> Zero]
        ELSE IF ~parsed.ok THEN [err |-> ParseErr(asString.v), f |-> f0]
        ELSE [err |-> NilErr, f |-> parsed.v]

\* func (f FlexibleFloat) MarshalJSON() ([]byte, error)
FlexibleFloat_MarshalJSON(v) == JSONMarshalFloat64(v)

---------------------------------------------------------------------------
(* FlexibleNotes: values *)

\* Note{From: a, Note: b}
Note(a, b) == [From |-> a, Note |-> b]

\* fn.Notes: a slice, nil or not, with its elements
NilNotes == [isNil |-> TRUE, elems |-> <<>>]

Notes(ns) == [isNil |-> FALSE, elems |-> ns]

\* no preceding UnmarshalJSON of the same data
NoPrev == [valid |-> FALSE, err |-> NilErr, Notes |-> NilNotes]

---------------------------------------------------------------------------
(* Wire values of the FlexibleFloat specification *)

FloatAtoms == {"0", "1", "5", ".", "-", "a", "NaN", "Inf"}

FloatStrings == SeqUpTo(FloatAtoms, MaxLen)

FloatWire ==
    {JStr(str) : str \in FloatStrings}
        \cup {JNum(lit) : lit \in {l \in FloatStrings : IsJSONNumber(l)}}
        \cup {JNull, JBool(TRUE), JBool(FALSE), JArr(<<>>), JObj(<<>>),
              JArr(<<JNum(<<"1">>)>>), JObj(<<Member(<<"balance">>, JNum(<<"1">>))>>)}

---------------------------------------------------------------------------
(* The server: the values a tool invocation works with *)

\* an argument of a tool call: absent, a string, or a value that is not a
\* string (a JSON number, say)
NoArg == [kind |-> "absent", s |-> <<>>]

StringArg(str) == [kind |-> "string", s |-> str]

OtherArg == [kind |-> "other", s |-> <<>>]

\* no invocation
NoCall ==
    [tool |-> "none", employeeId |-> NoArg, timeOffTypeId |-> NoArg, start |-> NoArg,
     end |-> NoArg, amount |-> NoArg, employeeNote |-> NoArg, year |-> 0]

\* a response body: the bytes are the text of a JSON value, or some text
\* that is not JSON
WellFormed(jv) == [valid |-> TRUE, json |-> jv, text |-> <<>>]

Malformed(text) == [valid |-> FALSE, json |-> NoBytes, text |-> text]

\* the empty body
NoBody == Malformed(<<>>)

\* no upstream outcome yet
NoResp == [kind |-> "none", status |-> 0, body |-> NoBody, readErr |-> FALSE, text |-> <<>>]

\* c.HTTPClient.Do(req) returned an error: no response
TransportFailure(text) ==
    [kind |-> "error", status |-> 0, body |-> NoBody, readErr |-> FALSE, text |-> text]

\* a response with its status and body; with readErr the connection broke
\* while the body was read, and io.ReadAll returned what it had with an error
Response(status, body, readErr) ==
    [kind |-> "response", status |-> status, body |-> body, readErr |-> readErr,
     text |-> IF readErr THEN <<"unexpected EOF">> ELSE <<>>]

\* a result of a client operation: the nil slice or pointer, or the
\* records it holds
NilResult == [isNil |-> TRUE, elems |-> <<>>]

Result(rs) == [isNil |-> FALSE, elems |-> rs]

\* the client operation was not called
NoRet == [called |-> FALSE, result |-> NilResult, err |-> NilErr]

\* return result, err
Return(result, e) == [called |-> TRUE, result |-> result, err |-> e]

\* the handler has not returned
NoRes == [returned |-> FALSE, IsError |-> FALSE, text |-> <<>>, goErr |-> NilErr]

\* return mcp.NewToolResultError(text), nil
NewToolResultError(text) ==
    [returned |-> TRUE, IsError |-> TRUE, text |-> text, goErr |-> NilErr]

\* return mcp.NewToolResultText(text), nil
NewToolResultText(text) ==
    [returned |-> TRUE, IsError |-> FALSE, text |-> text, goErr |-> NilErr]

\* no client has been constructed: the nil *BambooHRClient
NoClient == [isNil |-> TRUE, BaseURL |-> <<>>, APIKey |-> <<>>, Company |-> <<>>, Timeout |-> 0]

\* the goroutines that run handlers
Workers == {1, 2}

\* a worker that handles no invocation
NoInvocation ==
    [pc |-> "idle", call |-> NoCall, reqs |-> <<>>, resp |-> NoResp, ret |-> NoRet, res |-> NoRes]

\* the process at pc, started with the first argument arg and the
\* environment BAMBOOHR_API_KEY = apiKey, BAMBOOHR_COMPANY = company; exit
\* is its status once it has exited, and tools the tools added to the server
Process(at, arg, apiKey, company, exit, tools) ==
    [pc |-> at, arg |-> arg, apiKey |-> apiKey, company |-> company,
     exit |-> exit, tools |-> tools]

\* no process: the decoders and the server are taken by themselves
ProcessOff ==
    /\ cfg = NoClient
    /\ main = Process("off", <<>>, <<>>, <<>>, 0, {})
    /\ inv = [w \in Workers |-> NoInvocation]

\* the server between two invocations
ServerIdle ==
    /\ pc = "idle"
    /\ call = NoCall
    /\ reqs = <<>>
    /\ resp = NoResp
    /\ ret = NoRet
    /\ res = NoRes

---------------------------------------------------------------------------
(* The FlexibleFloat specification: the wire value of a field is decoded  *)
(* into a fresh FlexibleFloat, as a field of a freshly allocated           *)
(* TimeOffBalance or TimeOffRequest is, and the field is encoded again     *)
(* when the record is written out.  encoding/json calls UnmarshalJSON for  *)
(* the fields the response holds; a field it does not hold keeps its zero  *)
(* value and is encoded all the same.                                      *)

InitFloat ==
    /\ data \in FloatWire \cup {NoBytes}
    /\ f = Zero
    /\ fn = NilNotes
    /\ err = NilErr
    /\ out = NoBytes
    /\ op = "new"
    /\ prev = NoPrev
    /\ calls = 0
    /\ back = NoPrev
    /\ ServerIdle
    /\ ProcessOff

FloatUnmarshal ==
    /\ op = "new"
    /\ data # NoBytes
    /\ LET r == FlexibleFloat_UnmarshalJSON(data, f)
       IN  /\ f' = r.f
           /\ err' = r.err
    /\ op' = "UnmarshalJSON"
    /\ out' = NoBytes
    /\ calls' = calls + 1
    /\ UNCHANGED <<data, fn, prev, back>>
    /\ UNCHANGED serverVars
    /\ UNCHANGED processVars

FloatMarshal ==
    /\ \/ op = "new" /\ data = NoBytes
       \/ op = "UnmarshalJSON" /\ err = NilErr
    /\ LET r == FlexibleFloat_MarshalJSON(f)
       IN  /\ out' = r.bytes
           /\ err' = r.err
    /\ op' = "MarshalJSON"
    /\ UNCHANGED <<data, f, fn, prev, calls, back>>
    /\ UNCHANGED serverVars
    /\ UNCHANGED processVars

NextFloat == FloatUnmarshal \/ FloatMarshal

SpecFloat == InitFloat /\ [][NextFloat]_vars

---------------------------------------------------------------------------
(* encoding/json, as FlexibleNotes calls it *)

\* one member of an object decoded into a Note: the keys "from" and "note"
\* take a string, leave the field alone on null and are a type error on
\* any other shape; every other key is skipped whatever its value.  After
\* a type error the decoder goes on and reports the first one at the end.
NoteField(acc, m) ==
    IF m.k \notin {<<"from">>, <<"note">>} \/ m.v.t = "null" THEN acc
    ELSE IF m.v.t # "str" THEN [acc EXCEPT !.err = TypeErr]
    ELSE IF m.k = <<"from">> THEN [acc EXCEPT !.note.From = m.v.s]
    ELSE [acc EXCEPT !.note.Note = m.v.s]

RECURSIVE NoteFields(_, _)
NoteFields(ms, acc) ==
    IF ms = <<>> THEN acc ELSE NoteFields(Tail(ms), NoteField(acc, Head(ms)))

\* json.Unmarshal(data, &note) with note Note
JSONUnmarshalNote(d) ==
    IF d.t = "obj" THEN NoteFields(d.members, [err |-> NilErr, note |-> Note(<<>>, <<>>)])
    ELSE IF d.t = "null" THEN [err |-> NilErr, note |-> Note(<<>>, <<>>)]
    ELSE [err |-> TypeErr, note |-> Note(<<>>, <<>>)]

\* json.Unmarshal(data, &notes) with notes []Note: an array gives a
\* non-nil slice of its elements, each decoded as a Note, and fails if one
\* of them does; null gives the nil slice.
JSONUnmarshalNoteSlice(d) ==
    IF d.t = "arr"
    THEN [err   |-> IF \A i \in 1..Len(d.elems) : JSONUnmarshalNote(d.elems[i]).err = NilErr
                    THEN NilErr ELSE TypeErr,
          notes |-> Notes([i \in 1..Len(d.elems) |-> JSONUnmarshalNote(d.elems[i]).note])]
    ELSE IF d.t = "null" THEN [err |-> NilErr, notes |-> NilNotes]
    ELSE [err |-> TypeErr, notes |-> NilNotes]

\* the member names of an object on the wire
ObjKeys(d) == {d.members[i].k : i \in 1..Len(d.members)}

\* json.Unmarshal(data, &obj) with obj map[string]interface{}: an object
\* gives the map from each name to its (last) value, null the nil map.
JSONUnmarshalMap(d) ==
    IF d.t \in {"obj", "null"}
    THEN [err |-> NilErr,
          obj |-> [key \in ObjKeys(d) |->
                    LET last == CHOOSE i \in 1..Len(d.members) :
                                  /\ d.members[i].k = key
                                  /\ \A j \in (i + 1)..Len(d.members) : d.members[j].k # key
                    IN  d.members[last].v]]
    ELSE [err |-> TypeErr, obj |-> <<>>]

\* json.Marshal(fn.Notes): the nil slice is written as null, any other as
\* an array of objects with the keys of Note's field tags, neither of them
\* omitempty.
JSONMarshalNoteSlice(ns) ==
    IF ns.isNil THEN [err |-> NilErr, bytes |-> JNull]
    ELSE [err   |-> NilErr,
          bytes |-> JArr([i \in 1..Len(ns.elems) |->
                          JObj(<<Member(<<"from">>, JStr(ns.elems[i].From)),
                                 Member(<<"note">>, JStr(ns.elems[i].Note))>>)])]

---------------------------------------------------------------------------
(* FlexibleNotes *)

\* the orders in which `range obj` may visit the keys of a map: Go leaves
\* the order unspecified, and it differs from one loop to the next
KeyOrders(keys) ==
    {o \in [1..Cardinality(keys) -> keys] :
        \A i, j \in 1..Cardinality(keys) : i # j => o[i] # o[j]}

LooksLikeNote_Both(obj) ==
    /\ <<"from">> \in DOMAIN obj
    /\ <<"note">> \in DOMAIN obj /\ obj[<<"note">>].t # "null"

\* _, hasFrom := obj["from"]; hasFrom || obj["note"] != nil
LooksLikeNote(obj) ==
    \/ <<"from">> \in DOMAIN obj
    \/ <<"note">> \in DOMAIN obj /\ obj[<<"note">>].t # "null"

\* fmt.Sprintf("%s: %s", key, str)
NoteFragment(key, str) == key \o <<": ">> \o str

FlattenStep_NoSeparator(noteText, key, value) ==
    IF value.t = "str" THEN noteText \o NoteFragment(key, value.s) ELSE noteText

FlattenStep_FirstOnly(noteText, key, value) ==
    IF value.t = "str" /\ noteText = <<>> THEN NoteFragment(key, value.s) ELSE noteText

\* one turn of the loop over obj: value.(string) selects the strings
FlattenStep(noteText, key, value) ==
    IF value.t = "str"
    THEN (IF noteText # <<>> THEN noteText \o <<"; ">> ELSE noteText)
            \o NoteFragment(key, value.s)
    ELSE noteText

\* the loop `for key, value := range obj` visiting the keys in `order`
RECURSIVE FlattenObject(_, _, _)
FlattenObject(obj, order, noteText) ==
    IF order = <<>> THEN noteText
    ELSE FlattenObject(obj, Tail(order), FlattenStep(noteText, Head(order), obj[Head(order)]))

\* the first attempt: json.Unmarshal(data, &str), and on success
\* fn.Notes = []Note{{Note: str}}
StringRule_SkipEmpty(d) ==
    LET asString == JSONUnmarshalString(d)
    IN  [ok    |-> asString.err = NilErr,
         Notes |-> IF asString.v = <<>> THEN Notes(<<>>)
                   ELSE Notes(<<Note(<<>>, asString.v)>>)]

StringRule(d) ==
    LET asString == JSONUnmarshalString(d)
    IN  [ok    |-> asString.err = NilErr,
         Notes |-> Notes(<<Note(<<>>, asString.v)>>)]

\* a second attempt that keeps the elements of an array that decode and
\* drops the others
SliceRule_Partial(d) ==
    [ok    |-> d.t = "arr",
     Notes |-> IF d.t # "arr" THEN NilNotes
               ELSE LET kept == SelectSeq(d.elems, LAMBDA e : JSONUnmarshalNote(e).err = NilErr)
                    IN  Notes([i \in 1..Len(kept) |-> JSONUnmarshalNote(kept[i]).note])]

\* the second attempt: json.Unmarshal(data, &notes), and on success
\* fn.Notes = notes
SliceRule(d) ==
    LET asSlice == JSONUnmarshalNoteSlice(d)
    IN  [ok |-> asSlice.err = NilErr, Notes |-> asSlice.notes]

\* a third attempt that refuses an object that looks like a Note and does
\* not decode as one
ObjectRule_Strict(d, order) ==
    LET asMap  == JSONUnmarshalMap(d)
        asNote == JSONUnmarshalNote(d)
    IN  [ok    |-> asMap.err = NilErr /\ (LooksLikeNote(asMap.obj) => asNote.err = NilErr),
         Notes |-> IF asMap.err # NilErr THEN NilNotes
                   ELSE IF LooksLikeNote(asMap.obj)
                        THEN Notes(<<asNote.note>>)
                   ELSE Notes(<<Note(<<>>, FlattenObject(asMap.obj, order, <<>>))>>)]

\* the third attempt: json.Unmarshal(data, &obj), and on success either
\* the object decoded as a Note, when it looks like one and decodes as
\* one, or the object flattened into the text of a synthetic Note
ObjectRule(d, order) ==
    LET asMap  == JSONUnmarshalMap(d)
        asNote == JSONUnmarshalNote(d)
    IN  [ok    |-> asMap.err = NilErr,
         Notes |-> IF asMap.err # NilErr THEN NilNotes
                   ELSE IF LooksLikeNote(asMap.obj) /\ asNote.err = NilErr
                        THEN Notes(<<asNote.note>>)
                   ELSE Notes(<<Note(<<>>, FlattenObject(asMap.obj, order, <<>>))>>)]

FlexibleNotes_UnmarshalJSON_SliceFirst(d, fn0, order) ==
    IF SliceRule(d).ok THEN [err |-> NilErr, Notes |-> SliceRule(d).Notes]
    ELSE IF StringRule(d).ok THEN [err |-> NilErr, Notes |-> StringRule(d).Notes]
    ELSE IF ObjectRule(d, order).ok THEN [err |-> NilErr, Notes |-> ObjectRule(d, order).Notes]
    ELSE [err |-> NotesErr, Notes |-> fn0]

FlexibleNotes_UnmarshalJSON_NoError(d, fn0, order) ==
    IF StringRule(d).ok THEN [err |-> NilErr, Notes |-> StringRule(d).Notes]
    ELSE IF SliceRule(d).ok THEN [err |-> NilErr, Notes |-> SliceRule(d).Notes]
    ELSE IF ObjectRule(d, order).ok THEN [err |-> NilErr, Notes |-> ObjectRule(d, order).Notes]
    ELSE [err |-> NilErr, Notes |-> fn0]

\* func (fn *FlexibleNotes) UnmarshalJSON(data []byte) error
\* fn0 is fn.Notes before the call, order the order in which the map is
\* ranged over; the result is the error and fn.Notes after the call.
FlexibleNotes_UnmarshalJSON(d, fn0, order) ==
    IF StringRule(d).ok THEN [err |-> NilErr, Notes |-> StringRule(d).Notes]
    ELSE IF SliceRule(d).ok THEN [err |-> NilErr, Notes |-> SliceRule(d).Notes]
    ELSE IF ObjectRule(d, order).ok THEN [err |-> NilErr, Notes |-> ObjectRule(d, order).Notes]
    ELSE [err |-> NotesErr, Notes |-> fn0]

\* func (fn FlexibleNotes) MarshalJSON() ([]byte, error)
FlexibleNotes_MarshalJSON(ns) == JSONMarshalNoteSlice(ns)

---------------------------------------------------------------------------
(* Wire values of the FlexibleNotes specification *)

\* the keys of the objects of the model, in the order in which an object
\* on the wire holds those it has
NoteKeys == <<<<"from">>, <<"note">>, <<"reason">>, <<"duration">>>>

MemberValues == {JStr(<<"employee">>), JStr(<<"Sick day">>), JNull, JNum(<<"1">>)}

\* the members of the keys that vals gives a value, NoBytes being none
MembersOf(vals) ==
    SelectSeq([i \in 1..Len(NoteKeys) |-> Member(NoteKeys[i], vals[i])],
              LAMBDA m : m.v # NoBytes)

\* the objects of MaxMembers members at most
ObjectWire ==
    {JObj(MembersOf(vals)) :
        vals \in {vs \in [1..Len(NoteKeys) -> MemberValues \cup {NoBytes}] :
                    Len(MembersOf(vs)) <= MaxMembers}}

ScalarWire == {JNull, JBool(TRUE), JBool(FALSE), JNum(<<"1">>), JNum(<<"0", ".", "5">>),
               JStr(<<>>), JStr(<<"Family vacation">>), JStr(<<"from">>)}

\* what an array may hold: objects over the keys of a Note, an object with
\* another key, and scalars
ElemWire ==
    {JObj(from \o note) :
        from \in {<<>>} \cup {<<Member(<<"from">>, v)>> : v \in {JStr(<<"employee">>), JNull, JNum(<<"1">>)}},
        note \in {<<>>} \cup {<<Member(<<"note">>, v)>> : v \in {JStr(<<"employee">>), JNull, JNum(<<"1">>)}}}
        \cup {JObj(<<Member(<<"reason">>, JNum(<<"1">>))>>),
              JNull, JNum(<<"1">>), JStr(<<"employee">>)}

ArrayWire == {JArr(es) : es \in SeqUpTo(ElemWire, MaxElems)}

NotesWire == ScalarWire \cup ObjectWire \cup ArrayWire

---------------------------------------------------------------------------
(* The FlexibleNotes specification: a wire value arrives as the "notes"    *)
(* field of a response and is decoded into the Notes of a freshly          *)
(* allocated TimeOffRequest, whose zero value holds the nil slice; the     *)
(* same wire value may arrive again and is then decoded into another       *)
(* fresh TimeOffRequest.  The Notes of a TimeOffRequest are encoded when   *)
(* the record is written out; when the response holds no "notes" field,    *)
(* UnmarshalJSON is not called and the zero value is what is encoded.      *)

InitNotes ==
    /\ data \in NotesWire \cup {NoBytes}
    /\ f = Zero
    /\ fn = NilNotes
    /\ err = NilErr
    /\ out = NoBytes
    /\ op = "new"
    /\ prev = NoPrev
    /\ calls = 0
    /\ back = NoPrev
    /\ ServerIdle
    /\ ProcessOff

NotesUnmarshal ==
    /\ op \in {"new", "UnmarshalJSON"}
    /\ data # NoBytes
    /\ calls < MaxDecodes
    /\ \E order \in KeyOrders(ObjKeys(data)) :
          LET r == FlexibleNotes_UnmarshalJSON(data, NilNotes, order)
          IN  /\ fn' = r.Notes
              /\ err' = r.err
    /\ prev' = IF calls = 0 THEN NoPrev ELSE [valid |-> TRUE, err |-> err, Notes |-> fn]
    /\ op' = "UnmarshalJSON"
    /\ out' = NoBytes
    /\ calls' = calls + 1
    /\ UNCHANGED <<data, f, back>>
    /\ UNCHANGED serverVars
    /\ UNCHANGED processVars

NotesMarshal ==
    /\ \/ op = "new" /\ data = NoBytes
       \/ op = "UnmarshalJSON" /\ err = NilErr
    /\ LET r == FlexibleNotes_MarshalJSON(fn)
       IN  /\ out' = r.bytes
           /\ err' = r.err
    /\ op' = "MarshalJSON"
    /\ UNCHANGED <<data, f, fn, prev, calls, back>>
    /\ UNCHANGED serverVars
    /\ UNCHANGED processVars

\* the bytes MarshalJSON returned are decoded into a fresh FlexibleNotes,
\* as TestTimeOffRequest_JSONStructure does with a marshalled record
NotesRoundTrip ==
    /\ op = "MarshalJSON"
    /\ err = NilErr
    /\ \E order \in KeyOrders(ObjKeys(out)) :
          LET r == FlexibleNotes_UnmarshalJSON(out, NilNotes, order)
          IN  back' = [valid |-> TRUE, err |-> r.err, Notes |-> r.Notes]
    /\ op' = "RoundTrip"
    /\ UNCHANGED <<data, f, fn, err, out, prev, calls>>
    /\ UNCHANGED serverVars
    /\ UNCHANGED processVars

NextNotes == NotesUnmarshal \/ NotesMarshal \/ NotesRoundTrip

SpecNotes == InitNotes /\ [][NextNotes]_vars

---------------------------------------------------------------------------
(* Properties of FlexibleFloat, checked under SpecFloat *)

RECURSIVE Pow10(_)
Pow10(n) == IF n <= 0 THEN 1 ELSE 10 * Pow10(n - 1)

\* s is a decimal numeral: an optional sign, digits and at most one ".",
\* with at least one digit
IsDecimalNumeral(s) ==
    LET r == Unsigned(s)
    IN  /\ Cardinality(Dots(r)) <= 1
        /\ \E i \in 1..Len(r) : IsDigit(r[i])
        /\ \A i \in 1..Len(r) : r[i] = "." \/ IsDigit(r[i])

\* the number of digits of s after its "."
FractionDigits(s) ==
    Cardinality({i \in 1..Len(s) : IsDigit(s[i]) /\ \E j \in 1..(i - 1) : s[j] = "."})

\* v is the number the decimal numeral s denotes:
\* v.mant * 10^v.exp = (digits of s) * 10^-(fraction digits of s)
Denotes(v, s) ==
    /\ v.class = "finite"
    /\ v.neg = (s[1] = "-")
    /\ v.exp + FractionDigits(s) >= 0
    /\ v.mant * Pow10(v.exp + FractionDigits(s)) = DigitsVal(SelectSeq(s, IsDigit))

FloatDecoded == op = "UnmarshalJSON"

\* C1: FlexibleFloat decoding: a JSON number decodes to that number, the
\* empty JSON string decodes to 0, a non-empty JSON string that is a
\* decimal numeral decodes to the number it denotes, and every other
\* non-empty JSON string fails with a parse error carrying the string.
C1_DecodeByShape ==
    FloatDecoded =>
        /\ data.t = "num" => err = NilErr /\ Denotes(f, data.s)
        /\ data = JStr(<<>>) => err = NilErr /\ f = Zero
        /\ data.t = "str" /\ data.s # <<>> /\ IsDecimalNumeral(data.s)
              => err = NilErr /\ Denotes(f, data.s)
        /\ data.t = "str" /\ data.s # <<>> /\ ~IsDecimalNumeral(data.s)
              => err = ParseErr(data.s)

\* What of C1 the code does: the above for every string but the special
\* spellings NaN and Inf (signed or not), which decode without error to a
\* value that is no decimal.
C1_ExceptSpecialSpellings ==
    FloatDecoded =>
        /\ data.t = "num" => err = NilErr /\ Denotes(f, data.s)
        /\ data = JStr(<<>>) => err = NilErr /\ f = Zero
        /\ data.t = "str" /\ data.s # <<>> /\ IsDecimalNumeral(data.s)
              => err = NilErr /\ Denotes(f, data.s)
        /\ data.t = "str" /\ data.s # <<>> /\ ~IsDecimalNumeral(data.s)
              => \/ err = ParseErr(data.s) /\ f = Zero
                 \/ /\ data.s \in {<<"NaN">>, <<"Inf">>, <<"-", "Inf">>}
                    /\ err = NilErr
                    /\ f.class # "finite"

\* C2 as stated: FlexibleFloat decoding fails with a type error for every
\* wire value that is neither a JSON number nor a JSON string.
C2_TypeErrorForEveryOtherShape ==
    FloatDecoded /\ data.t \notin {"num", "str"} => err = TypeErr

\* C2 as amended: FlexibleFloat decoding fails with a type error, leaving
\* the target as it was, for a boolean, an object and an array; JSON null
\* is no error and decodes to 0.
C2_TypeErrorExceptNull ==
    FloatDecoded =>
        /\ data.t \in {"bool", "obj", "arr"} => err = TypeErr /\ f = Zero
        /\ data.t = "null" => err = NilErr /\ f = Zero

C2_Witness == FloatDecoded /\ data = JBool(TRUE) /\ err = TypeErr

\* C3: encoding a FlexibleFloat returns no error and a plain JSON number,
\* for every value decoding produced, from a number or from a string.
C3_EncodesAsNumber ==
    op = "MarshalJSON" => err = NilErr /\ out.t = "num" /\ IsJSONNumber(out.s)

\* What of C3 the code does: every finite value is written as the JSON
\* number that denotes it; NaN and the infinities are an error.
C3_FiniteEncodesAsNumber ==
    op = "MarshalJSON" =>
        IF f.class = "finite"
        THEN err = NilErr /\ out.t = "num" /\ IsJSONNumber(out.s) /\ Denotes(f, out.s)
        ELSE err = UnsupportedValueErr /\ out = NoBytes

---------------------------------------------------------------------------
(* Properties of FlexibleNotes, checked under SpecNotes *)

NotesDecoded == op = "UnmarshalJSON"

\* the members of d whose value is a JSON string, in wire order
StringMembers(d) ==
    LET isString(m) == m.v.t = "str" IN SelectSeq(d.members, isString)

\* d has a member named key
HasKey(d, key) == \E i \in 1..Len(d.members) : d.members[i].k = key

\* the text of d's member named key when that is a string, else empty
TextOf(d, key) ==
    IF \E i \in 1..Len(d.members) : d.members[i].k = key /\ d.members[i].v.t = "str"
    THEN d.members[CHOOSE i \in 1..Len(d.members) : d.members[i].k = key].v.s
    ELSE <<>>

\* d is an object whose "from" and "note", where present, are strings or
\* null: it decodes as a note object
IsNoteShaped(d) ==
    /\ d.t = "obj"
    /\ \A i \in 1..Len(d.members) :
          d.members[i].k \in {<<"from">>, <<"note">>} => d.members[i].v.t \in {"str", "null"}

\* d has a "from" key or a non-null "note" key
HasNoteKeys(d) ==
    \/ HasKey(d, <<"from">>)
    \/ \E i \in 1..Len(d.members) : d.members[i].k = <<"note">> /\ d.members[i].v.t # "null"

\* the single note object
IsSingleNote(d) == d.t = "obj" /\ HasNoteKeys(d) /\ IsNoteShaped(d)

\* the generic string-keyed object
IsGenericObject(d) == d.t = "obj" /\ ~HasNoteKeys(d)

\* the array of note objects
IsNoteArray(d) == d.t = "arr" /\ \A i \in 1..Len(d.elems) : IsNoteShaped(d.elems[i])

\* the four accepted shapes
IsAcceptedShape(d) ==
    d.t = "str" \/ IsNoteArray(d) \/ IsSingleNote(d) \/ IsGenericObject(d)

\* the fragments "key: value" of the members ms, joined by "; "
RECURSIVE JoinFragments(_)
JoinFragments(ms) ==
    IF ms = <<>> THEN <<>>
    ELSE IF Len(ms) = 1 THEN ms[1].k \o <<": ">> \o ms[1].v.s
    ELSE ms[1].k \o <<": ">> \o ms[1].v.s \o <<"; ">> \o JoinFragments(Tail(ms))

\* the arrangements of the members ms in every order
Arrangements(ms) ==
    {[i \in 1..Len(ms) |-> ms[p[i]]] : p \in KeyOrders(1..Len(ms))}

\* C4 as stated: decoding a wire value of one of the four accepted shapes
\* gives a non-empty sequence of Note, and the empty string gives exactly
\* one Note with empty text.
C4_NonEmptyForEveryShape ==
    NotesDecoded /\ IsAcceptedShape(data) =>
        /\ err = NilErr
        /\ Len(fn.elems) >= 1
        /\ data = JStr(<<>>) => fn = Notes(<<Note(<<>>, <<>>)>>)

\* C4 as amended: decoding a string, a single note object or a generic
\* object gives exactly one Note; decoding an array of n note objects gives
\* n Notes, so none for the empty array; the empty string gives exactly one
\* Note with empty text.
C4_OnePerShapeOrElement ==
    NotesDecoded /\ IsAcceptedShape(data) =>
        /\ err = NilErr
        /\ ~fn.isNil
        /\ Len(fn.elems) = IF data.t = "arr" THEN Len(data.elems) ELSE 1
        /\ data = JStr(<<>>) => fn = Notes(<<Note(<<>>, <<>>)>>)

C4_Witness ==
    /\ NotesDecoded
    /\ IsNoteArray(data)
    /\ Len(data.elems) = 2
    /\ err = NilErr
    /\ Len(fn.elems) = 2

\* C5: decoding a JSON string s, the empty one included, gives exactly one
\* Note with empty from and text s; the string rule comes first, so a
\* value it accepts is decoded by it even where a later rule accepts the
\* value too (null, which the array rule would turn into no notes).
C5_StringGivesOneNote ==
    NotesDecoded =>
        /\ data.t = "str" => err = NilErr /\ fn = Notes(<<Note(<<>>, data.s)>>)
        /\ JSONUnmarshalString(data).err = NilErr
              => fn = Notes(<<Note(<<>>, JSONUnmarshalString(data).v)>>)

C5_Witness ==
    /\ NotesDecoded
    /\ data = JStr(<<"Family vacation">>)
    /\ fn = Notes(<<Note(<<>>, <<"Family vacation">>)>>)

\* C6: decoding an object that has a "from" key or a non-null "note" key
\* and decodes as a note object gives exactly one Note with that object's
\* from and note.
C6_NoteObjectGivesItsNote ==
    NotesDecoded /\ IsSingleNote(data) =>
        /\ err = NilErr
        /\ fn = Notes(<<Note(TextOf(data, <<"from">>), TextOf(data, <<"note">>))>>)

C6_Witness ==
    /\ NotesDecoded
    /\ data = JObj(<<Member(<<"from">>, JStr(<<"employee">>)),
                     Member(<<"note">>, JStr(<<"Sick day">>))>>)
    /\ fn = Notes(<<Note(<<"employee">>, <<"Sick day">>)>>)

\* C7: decoding an object with neither a "from" key nor a non-null "note"
\* key gives exactly one Note with empty from whose text is made of the
\* fragments "key: value" of the string-valued keys, each exactly once,
\* consecutive ones separated by "; ", and of nothing else.
C7_GenericObjectIsFlattened ==
    NotesDecoded /\ IsGenericObject(data) =>
        /\ err = NilErr
        /\ Len(fn.elems) = 1
        /\ fn.elems[1].From = <<>>
        /\ \E ms \in Arrangements(StringMembers(data)) :
              fn.elems[1].Note = JoinFragments(ms)
        /\ \A i \in 1..Len(data.members) :
              Occurrences(data.members[i].k, fn.elems[1].Note)
                  = IF data.members[i].v.t = "str" THEN 1 ELSE 0

C7_Witness ==
    /\ NotesDecoded
    /\ IsGenericObject(data)
    /\ Len(StringMembers(data)) = 2
    /\ Occurrences(<<"; ">>, fn.elems[1].Note) = 1

\* C8 as stated: a generic object is flattened in the object's natural key
\* order, so decoding the same wire object twice gives the same note text.
C8_NaturalOrderAndRepeatable ==
    NotesDecoded /\ IsGenericObject(data) =>
        /\ fn.elems[1].Note = JoinFragments(StringMembers(data))
        /\ prev.valid => fn = prev.Notes

\* C8 as amended: an object is flattened in the order in which the map is
\* ranged over, which is unspecified: decoding the same flattened wire
\* object twice gives two texts of the same length that hold the same
\* "key: value" fragments, each once, and the same text when at most one
\* key has a string value.  Every other wire value decodes the same way
\* each time.
C8_SameFragmentsAnyOrder ==
    NotesDecoded /\ prev.valid =>
        /\ err = prev.err
        /\ IF data.t = "obj" /\ ~IsSingleNote(data) /\ Len(StringMembers(data)) >= 2
           THEN /\ Len(fn.elems) = 1 /\ Len(prev.Notes.elems) = 1
                /\ Len(fn.elems[1].Note) = Len(prev.Notes.elems[1].Note)
                /\ \A i \in 1..Len(StringMembers(data)) :
                      LET m == StringMembers(data)[i]
                      IN  /\ Occurrences(NoteFragment(m.k, m.v.s), fn.elems[1].Note) = 1
                          /\ Occurrences(NoteFragment(m.k, m.v.s), prev.Notes.elems[1].Note) = 1
           ELSE fn = prev.Notes

C8_Witness ==
    /\ NotesDecoded
    /\ prev.valid
    /\ IsGenericObject(data)
    /\ Len(StringMembers(data)) = 2
    /\ fn # prev.Notes

\* C9 as stated: decoding fails for every wire value that is not a JSON
\* string, array or object: a number, a boolean, null.
C9_ErrorForEveryOtherShape ==
    NotesDecoded /\ data.t \in {"num", "bool", "null"} => err = NotesErr

\* C9 as amended: decoding fails, leaving the target as it was, for a
\* number and a boolean; JSON null is no error and decodes to exactly one
\* Note with empty from and empty text.
C9_ErrorExceptNull ==
    NotesDecoded =>
        /\ data.t \in {"num", "bool"} => err = NotesErr /\ fn = NilNotes
        /\ data.t = "null" => err = NilErr /\ fn = Notes(<<Note(<<>>, <<>>)>>)

C9_Witness == NotesDecoded /\ data = JNum(<<"1">>) /\ err = NotesErr

\* the JSON object {"from": ..., "note": ...} with string values
IsNoteJSON(e) ==
    /\ e.t = "obj"
    /\ Len(e.members) = 2
    /\ e.members[1].k = <<"from">> /\ e.members[1].v.t = "str"
    /\ e.members[2].k = <<"note">> /\ e.members[2].v.t = "str"

\* C10: encoding a FlexibleNotes gives a JSON array of objects with the
\* keys "from" and "note", an empty from written as the empty string, for
\* every FlexibleNotes of the program: one decoded from any wire shape, and
\* the one of a TimeOffRequest whose response held no notes field.
C10_EncodesAsArray ==
    op = "MarshalJSON" =>
        /\ err = NilErr
        /\ out.t = "arr"
        /\ Len(out.elems) = Len(fn.elems)
        /\ \A i \in 1..Len(out.elems) :
              /\ IsNoteJSON(out.elems[i])
              /\ out.elems[i].members[1].v.s = fn.elems[i].From
              /\ out.elems[i].members[2].v.s = fn.elems[i].Note

\* What of C10 the code does: the above for every FlexibleNotes that was
\* decoded; the nil Notes of a TimeOffRequest that got none is written as
\* null.
C10_DecodedEncodesAsArray ==
    op = "MarshalJSON" =>
        /\ err = NilErr
        /\ IF fn.isNil THEN data = NoBytes /\ out = JNull
           ELSE /\ out.t = "arr"
                /\ Len(out.elems) = Len(fn.elems)
                /\ \A i \in 1..Len(out.elems) :
                      /\ IsNoteJSON(out.elems[i])
                      /\ out.elems[i].members[1].v.s = fn.elems[i].From
                      /\ out.elems[i].members[2].v.s = fn.elems[i].Note

---------------------------------------------------------------------------
(* Round trip of the notes *)

\* the {from, note} pair a note object on the wire carries
WirePair(e) == Note(TextOf(e, <<"from">>), TextOf(e, <<"note">>))

\* C11: for every array of note objects, decoding and encoding again gives
\* an array holding the same {from, note} pairs in the same order; and for
\* every FlexibleNotes value x, encoding x and decoding the bytes gives x
\* again, without an error.
C11_RoundTrip ==
    /\ (op \in {"MarshalJSON", "RoundTrip"} /\ IsNoteArray(data)) =>
          /\ out.t = "arr"
          /\ Len(out.elems) = Len(data.elems)
          /\ \A i \in 1..Len(out.elems) :
                IsNoteJSON(out.elems[i]) /\ WirePair(out.elems[i]) = WirePair(data.elems[i])
    /\ op = "RoundTrip" => back.err = NilErr /\ back.Notes = fn

\* What of C11 the code does: the round trip of every FlexibleNotes but the
\* nil one, which is written as null and read back as one empty note.
C11_RoundTripUnlessNil ==
    /\ (op \in {"MarshalJSON", "RoundTrip"} /\ IsNoteArray(data)) =>
          /\ out.t = "arr"
          /\ Len(out.elems) = Len(data.elems)
          /\ \A i \in 1..Len(out.elems) :
                IsNoteJSON(out.elems[i]) /\ WirePair(out.elems[i]) = WirePair(data.elems[i])
    /\ op = "RoundTrip" =>
          /\ back.err = NilErr
          /\ back.Notes = IF fn.isNil THEN Notes(<<Note(<<>>, <<>>)>>) ELSE fn

---------------------------------------------------------------------------
(* Strings and errors of the server *)

\* strconv.Atoi(s): [ok, v].  An optional sign and then digits, at least
\* one; the strings of the model are too short to overflow an int.
Atoi(s) ==
    LET signed == s # <<>> /\ s[1] \in {"-", "+"}
        ds     == IF signed THEN Tail(s) ELSE s
    IN  IF ds # <<>> /\ \A i \in 1..Len(ds) : IsDigit(ds[i])
        THEN [ok |-> TRUE, v |-> IF s[1] = "-" THEN 0 - DigitsVal(ds) ELSE DigitsVal(ds)]
        ELSE [ok |-> FALSE, v |-> 0]

\* fmt.Sprintf("%d", n)
FormatInt(n) == IF n < 0 THEN <<"-">> \o IntDigits(0 - n) ELSE IntDigits(n)

\* *json.SyntaxError: the bytes are not the text of a JSON value
SyntaxErr == [kind |-> "syntax", s |-> <<>>]

\* err.Error().  The errors of encoding/json are known by a fixed text; an
\* error made by fmt.Errorf carries its message.
ErrorText(e) ==
    CASE e.kind = "type"        -> <<"json: cannot unmarshal">>
      [] e.kind = "syntax"      -> <<"invalid character">>
      [] e.kind = "unsupported" -> <<"json: unsupported value">>
      [] e.kind = "notes"       -> <<"cannot unmarshal notes field">>
      [] e.kind = "parse"       -> <<"cannot parse '">> \o e.s \o <<"' as float">>
      [] OTHER                  -> e.s

\* fmt.Errorf(prefix + ": %w", e)
Wrap(prefix, e) == [kind |-> prefix, s |-> <<prefix, ": ">> \o ErrorText(e)]

\* the text of a JSON value, written without white space
RECURSIVE JSONText(_), JSONElems(_), JSONMembers(_)
JSONElems(es) ==
    IF es = <<>> THEN <<>>
    ELSE IF Len(es) = 1 THEN JSONText(es[1])
    ELSE JSONText(es[1]) \o <<",">> \o JSONElems(Tail(es))

JSONMembers(ms) ==
    IF ms = <<>> THEN <<>>
    ELSE IF Len(ms) = 1 THEN <<"\"">> \o ms[1].k \o <<"\":">> \o JSONText(ms[1].v)
    ELSE <<"\"">> \o ms[1].k \o <<"\":">> \o JSONText(ms[1].v) \o <<",">> \o JSONMembers(Tail(ms))

JSONText(d) ==
    CASE d.t = "null" -> <<"null">>
      [] d.t = "bool" -> IF d.b THEN <<"true">> ELSE <<"false">>
      [] d.t = "num"  -> d.s
      [] d.t = "str"  -> <<"\"">> \o d.s \o <<"\"">>
      [] d.t = "arr"  -> <<"[">> \o JSONElems(d.elems) \o <<"]">>
      [] d.t = "obj"  -> <<"{">> \o JSONMembers(d.members) \o <<"}">>
      [] OTHER        -> <<>>

\* string(body)
BodyText(body) == IF body.valid THEN JSONText(body.json) ELSE body.text

---------------------------------------------------------------------------
(* The records of the API and encoding/json on them.  A struct value is a  *)
(* function from the JSON name of each field to the field's value; a Go    *)
(* type is known by its name, the anonymous struct of a field by the       *)
(* field's.                                                                *)

\* the JSON names of the fields, in the order of declaration
Fields(T) ==
    CASE T = "TimeOffRequest" ->
           << <<"id">>, <<"employeeId">>, <<"name">>, <<"start">>, <<"end">>, <<"created">>,
              <<"type">>, <<"amount">>, <<"notes">>, <<"status">>, <<"actions">>, <<"dates">> >>
      [] T = "Type"    -> << <<"id">>, <<"name">>, <<"icon">> >>
      [] T = "Amount"  -> << <<"unit">>, <<"amount">> >>
      [] T = "Status"  -> << <<"status">>, <<"lastChanged">>, <<"lastChangedByUserId">> >>
      [] T = "Actions" ->
           << <<"view">>, <<"edit">>, <<"cancel">>, <<"approve">>, <<"deny">>, <<"bypass">> >>
      [] T = "TimeOffBalance" ->
           << <<"timeOffType">>, <<"name">>, <<"units">>, <<"balance">>, <<"end">>,
              <<"policyType">>, <<"usedYearToDate">> >>

FieldSet(T) == {Fields(T)[i] : i \in 1..Len(Fields(T))}

\* the Go type of the field with the JSON name key
FieldType(T, key) ==
    CASE T = "TimeOffRequest" /\ key = <<"type">>    -> "Type"
      [] T = "TimeOffRequest" /\ key = <<"amount">>  -> "Amount"
      [] T = "TimeOffRequest" /\ key = <<"notes">>   -> "FlexibleNotes"
      [] T = "TimeOffRequest" /\ key = <<"status">>  -> "Status"
      [] T = "TimeOffRequest" /\ key = <<"actions">> -> "Actions"
      [] T = "TimeOffRequest" /\ key = <<"dates">>   -> "map[string]string"
      [] T = "Amount" /\ key = <<"amount">>          -> "FlexibleFloat"
      [] T = "Actions"                               -> "bool"
      [] T = "TimeOffBalance" /\ key \in {<<"balance">>, <<"usedYearToDate">>} -> "FlexibleFloat"
      [] OTHER                                       -> "string"

\* a map[string]string: nil, or its entries
NilMap == [isNil |-> TRUE, m |-> <<>>]

Map(m) == [isNil |-> FALSE, m |-> m]

\* the zero value of a type
RECURSIVE ZeroValue(_)
ZeroValue(T) ==
    CASE T = "string"            -> EmptyStr
      [] T = "bool"              -> FALSE
      [] T = "FlexibleFloat"     -> Zero
      [] T = "FlexibleNotes"     -> NilNotes
      [] T = "map[string]string" -> NilMap
      [] OTHER                   -> [key \in FieldSet(T) |-> ZeroValue(FieldType(T, key))]

\* The outcome of decoding one value: the target afterwards, the
\* UnmarshalTypeError encoding/json saved (it goes on decoding after one),
\* and the error an UnmarshalJSON method returned, which ends the decoding.
Decoded(v) == [v |-> v, saved |-> NilErr, hard |-> NilErr]

Mismatch(v) == [v |-> v, saved |-> TypeErr, hard |-> NilErr]

\* the order of the keys of one object that the order of all the keys of a
\* body gives
OrderOf(val, order) ==
    LET isKey(key) == key \in ObjKeys(val) IN SelectSeq(order, isKey)

\* the outcome so far, acc, with the outcome r of the field key
WithField(acc, key, r) ==
    [v     |-> [acc.v EXCEPT ![key] = r.v],
     saved |-> IF acc.saved = NilErr THEN r.saved ELSE acc.saved,
     hard  |-> r.hard]

WithElem_Prepend(acc, r) ==
    [v     |-> <<r.v>> \o acc.v,
     saved |-> IF acc.saved = NilErr THEN r.saved ELSE acc.saved,
     hard  |-> r.hard]

\* the outcome so far, acc, with the outcome r of the next element
WithElem(acc, r) ==
    [v     |-> Append(acc.v, r.v),
     saved |-> IF acc.saved = NilErr THEN r.saved ELSE acc.saved,
     hard  |-> r.hard]

\* the outcome of FlexibleFloat.UnmarshalJSON, which gave r
FloatOutcome(r) == [v |-> r.f, saved |-> NilErr, hard |-> r.err]

\* the outcome of FlexibleNotes.UnmarshalJSON, which gave r
NotesOutcome(r) == [v |-> r.Notes, saved |-> NilErr, hard |-> r.err]

\* the entries of a map[string]string after the object val is decoded into it
MapEntries(val, cur, obj) ==
    [key \in ObjKeys(val) \cup (IF cur.isNil THEN {} ELSE DOMAIN cur.m) |->
        IF key \in ObjKeys(val) THEN JSONUnmarshalString(obj[key]).v ELSE cur.m[key]]

\* encoding/json decodes the wire value val into a target of type T holding
\* cur.  A null leaves the target alone, except where the type has an
\* UnmarshalJSON method, which is called with it; a name that is no field
\* is skipped.
RECURSIVE DecodeValue(_, _, _, _), DecodeMembers(_, _, _, _)
DecodeMembers(T, ms, acc, order) ==
    IF ms = <<>> \/ acc.hard # NilErr THEN acc
    ELSE IF Head(ms).k \notin FieldSet(T) THEN DecodeMembers(T, Tail(ms), acc, order)
    ELSE DecodeMembers(T, Tail(ms),
                       WithField(acc, Head(ms).k,
                                 DecodeValue(FieldType(T, Head(ms).k), Head(ms).v,
                                             acc.v[Head(ms).k], order)),
                       order)

DecodeValue(T, val, cur, order) ==
    CASE T = "FlexibleFloat" ->
           FloatOutcome(FlexibleFloat_UnmarshalJSON(val, cur))
      [] T = "FlexibleNotes" ->
           NotesOutcome(FlexibleNotes_UnmarshalJSON(val, cur, OrderOf(val, order)))
      [] T = "string" ->
           IF val.t = "str" THEN Decoded(val.s)
           ELSE IF val.t = "null" THEN Decoded(cur) ELSE Mismatch(cur)
      [] T = "bool" ->
           IF val.t = "bool" THEN Decoded(val.b)
           ELSE IF val.t = "null" THEN Decoded(cur) ELSE Mismatch(cur)
      [] T = "map[string]string" ->
           IF val.t = "obj"
           THEN IF \A i \in 1..Len(val.members) : val.members[i].v.t \in {"str", "null"}
                THEN Decoded(Map(MapEntries(val, cur, JSONUnmarshalMap(val).obj)))
                ELSE Mismatch(Map(MapEntries(val, cur, JSONUnmarshalMap(val).obj)))
           ELSE IF val.t = "null" THEN Decoded(cur) ELSE Mismatch(cur)
      [] OTHER ->
           IF val.t = "obj"
           THEN DecodeMembers(T, val.members, Decoded(cur), order)
           ELSE IF val.t = "null" THEN Decoded(cur) ELSE Mismatch(cur)

\* the elements of an array are decoded one after the other into fresh
\* elements of the slice
RECURSIVE DecodeElems(_, _, _, _)
DecodeElems(T, es, acc, order) ==
    IF es = <<>> \/ acc.hard # NilErr THEN acc
    ELSE DecodeElems(T, Tail(es),
                     WithElem(acc, DecodeValue(T, Head(es), ZeroValue(T), order)), order)

\* the error json.Unmarshal returns for an outcome
UnmarshalErr(r) == IF r.hard # NilErr THEN r.hard ELSE r.saved

\* what json.Unmarshal gave for a slice: the error, and the slice
Unmarshalled(r) == [err |-> UnmarshalErr(r), result |-> Result(r.v)]

JSONUnmarshalSlice_NilForEmpty(T, body, order) ==
    IF ~body.valid THEN [err |-> SyntaxErr, result |-> NilResult]
    ELSE IF body.json.t = "arr" /\ body.json.elems # <<>>
    THEN Unmarshalled(DecodeElems(T, body.json.elems, Decoded(<<>>), order))
    ELSE IF body.json.t \in {"arr", "null"} THEN [err |-> NilErr, result |-> NilResult]
    ELSE [err |-> TypeErr, result |-> NilResult]

\* json.Unmarshal(body, &records) with var records []T: [err, result]
JSONUnmarshalSlice(T, body, order) ==
    IF ~body.valid THEN [err |-> SyntaxErr, result |-> NilResult]
    ELSE IF body.json.t = "arr"
    THEN Unmarshalled(DecodeElems(T, body.json.elems, Decoded(<<>>), order))
    ELSE IF body.json.t = "null" THEN [err |-> NilErr, result |-> NilResult]
    ELSE [err |-> TypeErr, result |-> NilResult]

\* json.Unmarshal(body, &record) with var record T, and &record: [err, result]
JSONUnmarshalStruct(T, body, order) ==
    IF ~body.valid THEN [err |-> SyntaxErr, result |-> Result(<<ZeroValue(T)>>)]
    ELSE Unmarshalled(WithElem(Decoded(<<>>),
                               DecodeValue(T, body.json, ZeroValue(T), order)))

\* the first error of a sequence of encodings, nil when there is none
FirstErr(rs) ==
    IF \A i \in 1..Len(rs) : rs[i].err = NilErr THEN NilErr
    ELSE rs[CHOOSE i \in 1..Len(rs) :
                /\ rs[i].err # NilErr
                /\ \A j \in 1..(i - 1) : rs[j].err = NilErr].err

\* an object of the fields of T with the encodings rs
StructBytes(T, rs) == JObj([i \in 1..Len(Fields(T)) |-> Member(Fields(T)[i], rs[i].bytes)])

\* the encodings rs of the parts of a value put together, as the fields of
\* a struct T, as what a pointer points to, or as the elements of a slice;
\* or the first error among them
Encoded(T, form, rs) ==
    IF FirstErr(rs) # NilErr THEN [err |-> FirstErr(rs), bytes |-> NoBytes]
    ELSE [err   |-> NilErr,
          bytes |-> CASE form = "struct"  -> StructBytes(T, rs)
                      [] form = "pointer" -> rs[1].bytes
                      [] form = "slice"   -> JArr([i \in 1..Len(rs) |-> rs[i].bytes])]

\* an object of the entries of m, in the order keys
MapBytes(m, keys) == JObj([i \in 1..Len(keys) |-> Member(keys[i], JStr(m[keys[i]]))])

\* encoding/json encodes v of type T: [err, bytes].  A struct is written
\* with every field, in the order of declaration; a map with its keys
\* sorted, which for the maps of the model, of one entry at most, is the
\* only order there is.
RECURSIVE MarshalValue(_, _)
MarshalValue(T, v) ==
    CASE T = "FlexibleFloat" -> FlexibleFloat_MarshalJSON(v)
      [] T = "FlexibleNotes" -> FlexibleNotes_MarshalJSON(v)
      [] T = "string"        -> [err |-> NilErr, bytes |-> JStr(v)]
      [] T = "bool"          -> [err |-> NilErr, bytes |-> JBool(v)]
      [] T = "map[string]string" ->
           IF v.isNil THEN [err |-> NilErr, bytes |-> JNull]
           ELSE [err   |-> NilErr,
                 bytes |-> MapBytes(v.m, CHOOSE o \in KeyOrders(DOMAIN v.m) : TRUE)]
      [] OTHER ->
           Encoded(T, "struct",
                   [i \in 1..Len(Fields(T)) |->
                      MarshalValue(FieldType(T, Fields(T)[i]), v[Fields(T)[i]])])

\* json.MarshalIndent(records, "", "  ") with records a []T, or a *T for a
\* result of one record: [err, bytes].  The indentation is left out.
JSONMarshalIndent(T, result, isPointer) ==
    IF result.isNil THEN [err |-> NilErr, bytes |-> JNull]
    ELSE Encoded(T, IF isPointer THEN "pointer" ELSE "slice",
                 [i \in 1..Len(result.elems) |-> MarshalValue(T, result.elems[i])])

---------------------------------------------------------------------------
(* The payload of a new request *)

\* DateAmount{YMD: ymd, Amount: amount}
DateAmount(ymd, amount) == [YMD |-> ymd, Amount |-> amount]

\* json.Marshal(request) with request a TimeOffRequestCreate: the fields in
\* the order of declaration, a field tagged omitempty left out when it holds
\* the zero value of its type or a slice without elements
JSONMarshalCreate_KeepAmount(request) ==
    JObj((IF request.Status = EmptyStr THEN <<>>
          ELSE <<Member(<<"status">>, JStr(request.Status))>>)
         \o <<Member(<<"start">>, JStr(request.Start)),
              Member(<<"end">>, JStr(request.End)),
              Member(<<"timeOffTypeId">>, JNum(FormatInt(request.TimeOffTypeID)))>>
         \o <<Member(<<"amount">>, JNum(FormatInt(request.Amount)))>>
         \o (IF request.Notes.elems = <<>> THEN <<>>
             ELSE <<Member(<<"notes">>, JSONMarshalNoteSlice(request.Notes).bytes)>>)
         \o (IF request.Dates.elems = <<>> THEN <<>>
             ELSE <<Member(<<"dates">>,
                           JArr([i \in 1..Len(request.Dates.elems) |->
                                  JObj(<<Member(<<"ymd">>, JStr(request.Dates.elems[i].YMD)),
                                         Member(<<"amount">>,
                                                JNum(FormatInt(request.Dates.elems[i].Amount)))>>)]))>>)
         \o (IF request.PreviousRequest = 0 THEN <<>>
             ELSE <<Member(<<"previousRequest">>, JNum(FormatInt(request.PreviousRequest)))>>))

JSONMarshalCreate(request) ==
    JObj((IF request.Status = EmptyStr THEN <<>>
          ELSE <<Member(<<"status">>, JStr(request.Status))>>)
         \o <<Member(<<"start">>, JStr(request.Start)),
              Member(<<"end">>, JStr(request.End)),
              Member(<<"timeOffTypeId">>, JNum(FormatInt(request.TimeOffTypeID)))>>
         \o (IF request.Amount = 0 THEN <<>>
             ELSE <<Member(<<"amount">>, JNum(FormatInt(request.Amount)))>>)
         \o (IF request.Notes.elems = <<>> THEN <<>>
             ELSE <<Member(<<"notes">>, JSONMarshalNoteSlice(request.Notes).bytes)>>)
         \o (IF request.Dates.elems = <<>> THEN <<>>
             ELSE <<Member(<<"dates">>,
                           JArr([i \in 1..Len(request.Dates.elems) |->
                                  JObj(<<Member(<<"ymd">>, JStr(request.Dates.elems[i].YMD)),
                                         Member(<<"amount">>,
                                                JNum(FormatInt(request.Dates.elems[i].Amount)))>>)]))>>)
         \o (IF request.PreviousRequest = 0 THEN <<>>
             ELSE <<Member(<<"previousRequest">>, JNum(FormatInt(request.PreviousRequest)))>>))

---------------------------------------------------------------------------
(* The API client.  An operation is a function of its arguments and of the *)
(* upstream outcome of the request it issues; it gives the requests it     *)
(* sent and what it returned.                                              *)

\* http.StatusOK
StatusOK == 200

\* http.StatusCreated
StatusCreated == 201

\* a constructor that gives no client for an empty company or key
NewBambooHRClient_Validating(company, apiKey) ==
    IF company = EmptyStr \/ apiKey = EmptyStr THEN NoClient
    ELSE [isNil   |-> FALSE,
          BaseURL |-> <<"https://">> \o company \o <<".bamboohr.com/api/gateway.php/">>
                        \o company \o <<"/v1">>,
          APIKey  |-> apiKey,
          Company |-> company,
          Timeout |-> 30]

\* func NewBambooHRClient(company, apiKey string) *BambooHRClient; Timeout
\* in seconds
NewBambooHRClient(company, apiKey) ==
    [isNil   |-> FALSE,
     BaseURL |-> <<"https://">> \o company \o <<".bamboohr.com/api/gateway.php/">>
                   \o company \o <<"/v1">>,
     APIKey  |-> apiKey,
     Company |-> company,
     Timeout |-> 30]

\* client := NewBambooHRClient(company, apiKey), with the environment of the model
client == NewBambooHRClient(<<"acme">>, <<"secret">>)

\* the error of c.HTTPClient.Do(req)
TransportErr(text) == [kind |-> "transport", s |-> text]

\* the error of io.ReadAll(resp.Body)
ReadErr(text) == [kind |-> "read", s |-> text]

\* the error of http.NewRequest: the URL holds a control character
URLErr == [kind |-> "url", s |-> <<"net/url: invalid control character in URL">>]

\* a request that says it has a JSON body whether it has one or not
Request_AlwaysContentType(method, url, apiKey, body) ==
    [method      |-> method,
     url         |-> url,
     username    |-> apiKey,
     password    |-> EmptyStr,
     accept      |-> <<"application/json">>,
     contentType |-> <<"application/json">>,
     body        |-> body]

\* the request http.NewRequest makes, with the headers the client sets
Request(method, url, apiKey, body) ==
    [method      |-> method,
     url         |-> url,
     username    |-> apiKey,
     password    |-> EmptyStr,
     accept      |-> <<"application/json">>,
     contentType |-> IF body = NoBytes THEN EmptyStr ELSE <<"application/json">>,
     body        |-> body]

\* what a makeRequest gave: the requests that went out, and (resp, err)
Made(sent, e, outcome) == [sent |-> sent, err |-> e, resp |-> outcome]

\* the steps makeRequest and makeRequestV1 share
doRequest(c, method, url, body, outcome) ==
    IF \E i \in 1..Len(url) : url[i] = "\n"
    THEN Made(<<>>, Wrap("creating request", URLErr), NoResp)
    ELSE IF outcome.kind = "error"
    THEN Made(<<Request(method, url, c.APIKey, body)>>, TransportErr(outcome.text), NoResp)
    ELSE Made(<<Request(method, url, c.APIKey, body)>>, NilErr, outcome)

\* func (c *BambooHRClient) makeRequest(method, endpoint string, body io.Reader)
makeRequest(c, method, endpoint, body, outcome) ==
    doRequest(c, method, c.BaseURL \o endpoint, body, outcome)

\* a makeRequestV1 that takes the base URL of the client
makeRequestV1_BaseURL(c, method, endpoint, body, outcome) ==
    doRequest(c, method, c.BaseURL \o endpoint, body, outcome)

\* func (c *BambooHRClient) makeRequestV1(method, endpoint string, body io.Reader)
makeRequestV1(c, method, endpoint, body, outcome) ==
    doRequest(c, method, <<"https://">> \o c.Company \o <<".bamboohr.com/api/v1">> \o endpoint,
              body, outcome)

APIError_StatusOnly(status, body) ==
    [kind |-> "API error", s |-> <<"API error ">> \o FormatInt(status) \o <<": ">>]

\* fmt.Errorf("API error %d: %s", resp.StatusCode, string(body))
APIError(status, body) ==
    [kind |-> "API error", s |-> <<"API error ">> \o FormatInt(status) \o <<": ">> \o BodyText(body)]

\* what an operation gave: the requests that went out, and what it returned
Did(sent, r) == [sent |-> sent, ret |-> r]

DefaultDates_OnlyMissing(start, end, year) ==
    [start |-> IF start = EmptyStr THEN FormatInt(year) \o <<"-01-01">> ELSE start,
     end   |-> IF end = EmptyStr THEN FormatInt(year) \o <<"-12-31">> ELSE end]

\* GetTimeOffRequests, the default of the dates: the current year when
\* either is empty
DefaultDates(start, end, year) ==
    IF start = EmptyStr \/ end = EmptyStr
    THEN [start |-> FormatInt(year) \o <<"-01-01">>, end |-> FormatInt(year) \o <<"-12-31">>]
    ELSE [start |-> start, end |-> end]

\* "?start=%s&end=%s&employeeId=%d"
RequestsParams(dates, employeeID) ==
    <<"?start=">> \o dates.start \o <<"&end=">> \o dates.end
        \o <<"&employeeId=">> \o FormatInt(employeeID)

\* an operation that sends its request once more when it failed
Received_Retry(made, accepted, decoded) ==
    IF made.err # NilErr
    THEN Did(made.sent \o made.sent, Return(NilResult, Wrap("making request", made.err)))
    ELSE IF made.resp.readErr
    THEN Did(made.sent, Return(NilResult, Wrap("reading response body", ReadErr(made.resp.text))))
    ELSE IF made.resp.status \notin accepted
    THEN Did(made.sent, Return(NilResult, APIError(made.resp.status, made.resp.body)))
    ELSE IF decoded.err # NilErr
    THEN Did(made.sent, Return(NilResult, Wrap("decoding response", decoded.err)))
    ELSE Did(made.sent, Return(decoded.result, NilErr))

Received_AnyStatus(made, accepted, decoded) ==
    IF made.err # NilErr
    THEN Did(made.sent, Return(NilResult, Wrap("making request", made.err)))
    ELSE IF made.resp.readErr
    THEN Did(made.sent, Return(NilResult, Wrap("reading response body", ReadErr(made.resp.text))))
    ELSE IF decoded.err # NilErr
    THEN Did(made.sent, Return(NilResult, Wrap("decoding response", decoded.err)))
    ELSE Did(made.sent, Return(decoded.result, NilErr))

Received_Partial(made, accepted, decoded) ==
    IF made.err # NilErr
    THEN Did(made.sent, Return(NilResult, Wrap("making request", made.err)))
    ELSE IF made.resp.readErr
    THEN Did(made.sent, Return(NilResult, Wrap("reading response body", ReadErr(made.resp.text))))
    ELSE IF made.resp.status \notin accepted
    THEN Did(made.sent, Return(NilResult, APIError(made.resp.status, made.resp.body)))
    ELSE IF decoded.err # NilErr
    THEN Did(made.sent, Return(decoded.result, Wrap("decoding response", decoded.err)))
    ELSE Did(made.sent, Return(decoded.result, NilErr))

\* What the three operations do with (resp, err) of the request, each in
\* its own copy of the lines: the error of the request; the body read; the
\* status, which must be an accepted one; the body decoded, decoded being
\* what json.Unmarshal gives for it; and the result.
Received(made, accepted, decoded) ==
    IF made.err # NilErr
    THEN Did(made.sent, Return(NilResult, Wrap("making request", made.err)))
    ELSE IF made.resp.readErr
    THEN Did(made.sent, Return(NilResult, Wrap("reading response body", ReadErr(made.resp.text))))
    ELSE IF made.resp.status \notin accepted
    THEN Did(made.sent, Return(NilResult, APIError(made.resp.status, made.resp.body)))
    ELSE IF decoded.err # NilErr
    THEN Did(made.sent, Return(NilResult, Wrap("decoding response", decoded.err)))
    ELSE Did(made.sent, Return(decoded.result, NilErr))

\* func (c *BambooHRClient) GetTimeOffRequests(employeeID int, start, end string)
\* ([]TimeOffRequest, error); year is the year of time.Now()
GetTimeOffRequests(c, employeeID, start, end, year, outcome, order) ==
    Received(makeRequestV1(c, "GET",
                           <<"/time_off/requests">>
                               \o RequestsParams(DefaultDates(start, end, year), employeeID),
                           NoBytes, outcome),
             {StatusOK},
             JSONUnmarshalSlice("TimeOffRequest", outcome.body, order))

\* func (c *BambooHRClient) GetTimeOffBalance(employeeID int) ([]TimeOffBalance, error)
GetTimeOffBalance(c, employeeID, outcome, order) ==
    Received(makeRequest(c, "GET",
                         <<"/employees/">> \o FormatInt(employeeID) \o <<"/time_off/calculator">>,
                         NoBytes, outcome),
             {StatusOK},
             JSONUnmarshalSlice("TimeOffBalance", outcome.body, order))

\* func (c *BambooHRClient) CreateTimeOffRequest(employeeID int,
\* request TimeOffRequestCreate) (*TimeOffRequest, error); json.Marshal of a
\* TimeOffRequestCreate, of strings and ints, returns no error
CreateTimeOffRequest(c, employeeID, request, outcome, order) ==
    Received(makeRequestV1(c, "PUT",
                           <<"/employees/">> \o FormatInt(employeeID) \o <<"/time_off/request">>,
                           JSONMarshalCreate(request), outcome),
             {StatusOK, StatusCreated},
             JSONUnmarshalStruct("TimeOffRequest", outcome.body, order))

---------------------------------------------------------------------------
(* The tool handlers.  A handler is a function of the invocation and of    *)
(* the upstream outcome; it gives the requests that went out, what the     *)
(* client operation returned, and the tool result.                         *)

\* request.RequireString(name): [ok, v, text], text the message of the error
RequireString(arg, name) ==
    IF arg.kind = "string" THEN [ok |-> TRUE, v |-> arg.s, text |-> EmptyStr]
    ELSE IF arg.kind = "absent"
    THEN [ok |-> FALSE, v |-> EmptyStr, text |-> <<"required argument \"", name, "\" not found">>]
    ELSE [ok |-> FALSE, v |-> EmptyStr, text |-> <<"argument \"", name, "\" is not a string">>]

\* request.GetString(name, default)
GetString(arg, default) == IF arg.kind = "string" THEN arg.s ELSE default

\* what a handler gave
Handled(sent, r, result) == [sent |-> sent, ret |-> r, res |-> result]

\* a handler that returned before it called the client
Rejected(text) == Handled(<<>>, NoRet, NewToolResultError(text))

\* a handler that does not return when its operation failed
Replied_Pending(did, encoded, failure) ==
    IF did.ret.err # NilErr
    THEN Handled(did.sent, did.ret, NoRes)
    ELSE IF encoded.err # NilErr
    THEN Handled(did.sent, did.ret,
                 NewToolResultError(<<"Failed to marshal response: ">> \o ErrorText(encoded.err)))
    ELSE Handled(did.sent, did.ret, NewToolResultText(JSONText(encoded.bytes)))

\* a handler that hands the error of json.MarshalIndent to its caller as a
\* Go error
Replied_GoErr(did, encoded, failure) ==
    IF did.ret.err # NilErr
    THEN Handled(did.sent, did.ret, NewToolResultError(failure \o ErrorText(did.ret.err)))
    ELSE IF encoded.err # NilErr
    THEN Handled(did.sent, did.ret,
                 [returned |-> TRUE, IsError |-> FALSE, text |-> EmptyStr, goErr |-> encoded.err])
    ELSE Handled(did.sent, did.ret, NewToolResultText(JSONText(encoded.bytes)))

\* the end of a handler of a client operation: the error of the operation,
\* or the records written out, encoded being what json.MarshalIndent gives
Replied(did, encoded, failure) ==
    IF did.ret.err # NilErr
    THEN Handled(did.sent, did.ret, NewToolResultError(failure \o ErrorText(did.ret.err)))
    ELSE IF encoded.err # NilErr
    THEN Handled(did.sent, did.ret,
                 NewToolResultError(<<"Failed to marshal response: ">> \o ErrorText(encoded.err)))
    ELSE Handled(did.sent, did.ret, NewToolResultText(JSONText(encoded.bytes)))

\* the same for an operation that gave did, with records of type T
Reply(T, did, isPointer, failure) ==
    Replied(did, JSONMarshalIndent(T, did.ret.result, isPointer), failure)

\* func handleGetTimeOffRequests(client *BambooHRClient) server.ToolHandlerFunc
handleGetTimeOffRequests(c, request, outcome, order) ==
    LET employeeIDStr == RequireString(request.employeeId, "employeeId")
        employeeID    == Atoi(employeeIDStr.v)
        start         == GetString(request.start, EmptyStr)
        end           == GetString(request.end, EmptyStr)
    IN  IF ~employeeIDStr.ok
        THEN Rejected(<<"employeeId is required: ">> \o employeeIDStr.text)
        ELSE IF ~employeeID.ok THEN Rejected(<<"employeeId must be a valid integer">>)
        ELSE Reply("TimeOffRequest",
                   GetTimeOffRequests(c, employeeID.v, start, end, request.year, outcome, order),
                   FALSE, <<"Failed to get time-off requests: ">>)

\* func handleGetTimeOffBalance(client *BambooHRClient) server.ToolHandlerFunc
handleGetTimeOffBalance(c, request, outcome, order) ==
    LET employeeIDStr == RequireString(request.employeeId, "employeeId")
        employeeID    == Atoi(employeeIDStr.v)
    IN  IF ~employeeIDStr.ok
        THEN Rejected(<<"employeeId is required: ">> \o employeeIDStr.text)
        ELSE IF ~employeeID.ok THEN Rejected(<<"employeeId must be a valid integer">>)
        ELSE Reply("TimeOffBalance", GetTimeOffBalance(c, employeeID.v, outcome, order),
                   FALSE, <<"Failed to get time-off balance: ">>)

\* handleListEmployees, once makeRequest has given made
Listed(made) ==
    IF made.err # NilErr
    THEN Handled(made.sent, NoRet,
                 NewToolResultError(<<"Failed to make request: ">> \o ErrorText(made.err)))
    ELSE IF made.resp.status # StatusOK
    THEN Handled(made.sent, NoRet,
                 NewToolResultError(ErrorText(APIError(made.resp.status, made.resp.body))))
    ELSE IF made.resp.readErr
    THEN Handled(made.sent, NoRet,
                 NewToolResultError(<<"Failed to read response: ">>
                                    \o ErrorText(ReadErr(made.resp.text))))
    ELSE Handled(made.sent, NoRet, NewToolResultText(BodyText(made.resp.body)))

\* func handleListEmployees(client *BambooHRClient) server.ToolHandlerFunc
handleListEmployees(c, request, outcome, order) ==
    Listed(makeRequest(c, "GET", <<"/employees/directory">>, NoBytes, outcome))

\* TimeOffRequestCreate{Status: "requested", ...} as the handler fills it
TimeOffRequestCreate(startDate, endDate, timeOffTypeID, amount, notes, dates) ==
    [Status          |-> <<"requested">>,
     Start           |-> startDate,
     End             |-> endDate,
     TimeOffTypeID   |-> timeOffTypeID,
     Amount          |-> amount,
     Notes           |-> notes,
     Dates           |-> dates,
     PreviousRequest |-> 0]

ParseAmount_Float(amountStr) ==
    [ok |-> ParseFloat(amountStr).ok,
     v  |-> IF Atoi(amountStr).ok THEN Atoi(amountStr).v ELSE 0]

\* amount, err := strconv.Atoi(amountStr)
ParseAmount(amountStr) == Atoi(amountStr)

\* func handleCreateTimeOffRequest(client *BambooHRClient) server.ToolHandlerFunc
handleCreateTimeOffRequest(c, request, outcome, order) ==
    LET employeeIDStr    == RequireString(request.employeeId, "employeeId")
        employeeID       == Atoi(employeeIDStr.v)
        timeOffTypeIDStr == RequireString(request.timeOffTypeId, "timeOffTypeId")
        timeOffTypeID    == Atoi(timeOffTypeIDStr.v)
        startDate        == RequireString(request.start, "start")
        endDate          == RequireString(request.end, "end")
        employeeNote     == GetString(request.employeeNote, EmptyStr)
        amountStr        == GetString(request.amount, <<"1">>)
        amount           == ParseAmount(amountStr)
        notes            == IF employeeNote # EmptyStr
                            THEN Notes(<<Note(<<"employee">>, employeeNote)>>)
                            ELSE NilNotes
        dates            == Result(<<DateAmount(startDate.v, amount.v)>>)
        timeOffRequest   == TimeOffRequestCreate(startDate.v, endDate.v, timeOffTypeID.v,
                                                 amount.v, notes, dates)
    IN  IF ~employeeIDStr.ok
        THEN Rejected(<<"employeeId is required: ">> \o employeeIDStr.text)
        ELSE IF ~employeeID.ok THEN Rejected(<<"employeeId must be a valid integer">>)
        ELSE IF ~timeOffTypeIDStr.ok
        THEN Rejected(<<"timeOffTypeId is required: ">> \o timeOffTypeIDStr.text)
        ELSE IF ~timeOffTypeID.ok THEN Rejected(<<"timeOffTypeId must be a valid integer">>)
        ELSE IF ~startDate.ok THEN Rejected(<<"start date is required: ">> \o startDate.text)
        ELSE IF ~endDate.ok THEN Rejected(<<"end date is required: ">> \o endDate.text)
        ELSE IF ~amount.ok THEN Rejected(<<"amount must be a valid integer">>)
        ELSE Reply("TimeOffRequest",
                   CreateTimeOffRequest(c, employeeID.v, timeOffRequest, outcome, order),
                   TRUE, <<"Failed to create time-off request: ">>)

\* the handler s.AddTool registered for the tool
Handle(c, request, outcome, order) ==
    CASE request.tool = "get_time_off_requests"   -> handleGetTimeOffRequests(c, request, outcome, order)
      [] request.tool = "get_time_off_balance"    -> handleGetTimeOffBalance(c, request, outcome, order)
      [] request.tool = "list_employees"          -> handleListEmployees(c, request, outcome, order)
      [] request.tool = "create_time_off_request" -> handleCreateTimeOffRequest(c, request, outcome, order)

---------------------------------------------------------------------------
(* Invocations and upstream outcomes of the server specification *)

\* most records in the array of a response body
MaxRecords == 2

\* an invocation of a tool with its arguments, and the year of the clock
\* where the handler reads it
Call(tool, employeeId, timeOffTypeId, start, end, amount, employeeNote, year) ==
    [tool |-> tool, employeeId |-> employeeId, timeOffTypeId |-> timeOffTypeId,
     start |-> start, end |-> end, amount |-> amount, employeeNote |-> employeeNote,
     year |-> year]

\* the invocations of the model: each argument absent, not a string, or a
\* string that is empty, well formed or not
Calls ==
    {Call("get_time_off_requests", id, NoArg, start, end, NoArg, NoArg, year) :
        id \in {NoArg, OtherArg, StringArg(EmptyStr), StringArg(<<"1", "5", "7">>),
                StringArg(<<"a">>)},
        start \in {NoArg, StringArg(<<"2025-09-05", "&", "employeeId", "=", "9">>),
                   StringArg(<<"2025-09-05">>), StringArg(<<"\n">>)},
        end \in {NoArg, StringArg(<<"2025-09-05">>), StringArg(<<"2025-09-08">>)},
        year \in {2025, 2026}}
    \cup {Call("get_time_off_balance", id, NoArg, NoArg, NoArg, NoArg, NoArg, 0) :
            id \in {NoArg, OtherArg, StringArg(EmptyStr), StringArg(<<"1", "5", "7">>),
                    StringArg(<<"a">>)}}
    \cup {Call("list_employees", NoArg, NoArg, NoArg, NoArg, NoArg, NoArg, 0)}
    \cup {Call("create_time_off_request", id, type, start, end, amount, note, 0) :
            id \in {NoArg, StringArg(<<"1", "5", "7">>), StringArg(<<"a">>)},
            type \in {NoArg, StringArg(<<"2", "7">>), StringArg(<<"x">>)},
            start \in {NoArg, StringArg(EmptyStr), StringArg(<<"2025-09-05">>)},
            end \in {NoArg, StringArg(<<"2025-09-05">>), StringArg(<<"2025-09-08">>)},
            amount \in {NoArg, OtherArg, StringArg(<<"1">>), StringArg(<<"0">>),
                        StringArg(<<"2">>), StringArg(<<"0", ".", "5">>), StringArg(<<"a">>)},
            note \in {NoArg, StringArg(EmptyStr), StringArg(<<"Home office day">>)}}

\* the balance objects of a calculator response
BalanceObjects ==
    {JObj(<<Member(<<"name">>, JStr(<<"Vacation">>)),
            Member(<<"balance">>, balance),
            Member(<<"usedYearToDate">>, used)>>) :
        balance \in {JStr(<<"3", ".", "4", "2">>), JNum(<<"1">>), JStr(<<"NaN">>),
                     JStr(<<"a">>), JBool(TRUE)},
        used \in {JStr(<<"1">>), JNum(<<"2", ".", "5">>)}}

\* the request objects of a requests response
RequestObjects ==
    {JObj(<<Member(<<"id">>, JStr(<<"22565">>)),
            Member(<<"amount">>, JObj(<<Member(<<"unit">>, JStr(<<"days">>)),
                                         Member(<<"amount">>, amount)>>))>> \o rest) :
        amount \in {JNum(<<"0", ".", "5">>), JStr(<<"Inf">>)},
        rest \in {<<>>,
                  <<Member(<<"notes">>, JObj(<<Member(<<"reason">>, JStr(<<"Sick day">>))>>)),
                    Member(<<"dates">>, JObj(<<Member(<<"2025-09-05">>, JStr(<<"1">>))>>))>>,
                  <<Member(<<"notes">>, JNum(<<"1">>))>>,
                  <<Member(<<"id">>, JNum(<<"1">>))>>}}

\* the bodies the upstream may answer a tool's request with: some text,
\* nothing, JSON of other shapes, and arrays of the tool's records
Bodies(tool) ==
    {Malformed(<<"Not Found">>), NoBody, Malformed(<<"{", "invalid json">>),
     WellFormed(JNull), WellFormed(JStr(<<"ok">>)),
     WellFormed(JObj(<<Member(<<"error">>, JStr(<<"Unauthorized">>))>>)),
     WellFormed(JArr(<<JNum(<<"1">>)>>)), WellFormed(JArr(<<JNull>>))}
    \cup
    CASE tool = "get_time_off_balance" ->
           {WellFormed(JArr(es)) : es \in SeqUpTo(BalanceObjects, MaxRecords)}
      [] tool = "get_time_off_requests" ->
           {WellFormed(JArr(es)) : es \in SeqUpTo(RequestObjects, MaxRecords)}
      [] tool = "create_time_off_request" ->
           {WellFormed(e) : e \in RequestObjects}
           \cup {WellFormed(JArr(es)) : es \in SeqUpTo(RequestObjects, 1)}
      [] OTHER -> {WellFormed(JArr(<<JObj(<<Member(<<"id">>, JStr(<<"157">>))>>)>>))}

\* what may come of a request: no response, or one of any status and body,
\* read whole or broken off
Outcomes(tool) ==
    {TransportFailure(<<"context deadline exceeded">>)}
    \cup {Response(status, body, readErr) :
            status \in {StatusOK, StatusCreated, 204, 401, 404, 500},
            body \in Bodies(tool), readErr \in BOOLEAN}

\* the keys of the notes objects of a body: the keys `range obj` visits
\* while the body is decoded
BodyNoteKeys(body) ==
    LET records     == IF ~body.valid THEN <<>>
                       ELSE IF body.json.t = "arr" THEN body.json.elems ELSE <<body.json>>
        noteKeys(r) == UNION {ObjKeys(r.members[j].v) :
                                j \in {k \in 1..Len(r.members) : r.members[k].k = <<"notes">>}}
    IN  UNION {noteKeys(records[i]) : i \in 1..Len(records)}

---------------------------------------------------------------------------
(* The server specification: the server takes one invocation at a time.    *)
(* The handler checks the arguments and issues the request; the upstream   *)
(* answers, or the transport fails, and the handler returns its result;    *)
(* the server then waits for the next invocation.                          *)

\* the decoder variables, which the server does not use
CodecIdle ==
    /\ data = NoBytes
    /\ f = Zero
    /\ fn = NilNotes
    /\ err = NilErr
    /\ out = NoBytes
    /\ op = "new"
    /\ prev = NoPrev
    /\ calls = 0
    /\ back = NoPrev

InitServer == CodecIdle /\ ServerIdle /\ ProcessOff

\* an invocation arrives whose handler returns before any request goes out
Reject ==
    /\ pc = "idle"
    /\ \E request \in Calls :
          \E h \in {Handle(client, request, NoResp, <<>>)} :
             /\ h.sent = <<>>
             /\ call' = request
             /\ ret' = h.ret
             /\ res' = h.res
    /\ pc' = "done"
    /\ UNCHANGED <<reqs, resp>>
    /\ UNCHANGED codecVars
    /\ UNCHANGED processVars

\* an invocation arrives whose handler issues its request and waits
Send ==
    /\ pc = "idle"
    /\ \E request \in Calls :
          \E h \in {Handle(client, request, NoResp, <<>>)} :
             /\ h.sent # <<>>
             /\ call' = request
             /\ reqs' = h.sent
    /\ pc' = "waiting"
    /\ UNCHANGED <<resp, ret, res>>
    /\ UNCHANGED codecVars
    /\ UNCHANGED processVars

\* the outcome of the request arrives and the handler returns
Respond ==
    /\ pc = "waiting"
    /\ \E outcome \in Outcomes(call.tool) :
          \E order \in KeyOrders(BodyNoteKeys(outcome.body)) :
             \E h \in {Handle(client, call, outcome, order)} :
                /\ resp' = outcome
                /\ reqs' = h.sent
                /\ ret' = h.ret
                /\ res' = h.res
    /\ pc' = "done"
    /\ UNCHANGED call
    /\ UNCHANGED codecVars
    /\ UNCHANGED processVars

\* the result is written out and the server waits for the next invocation
Finish ==
    /\ pc = "done"
    /\ pc' = "idle"
    /\ call' = NoCall
    /\ reqs' = <<>>
    /\ resp' = NoResp
    /\ ret' = NoRet
    /\ res' = NoRes
    /\ UNCHANGED codecVars
    /\ UNCHANGED processVars

NextServer == Reject \/ Send \/ Respond \/ Finish

SpecServer == InitServer /\ [][NextServer]_vars

---------------------------------------------------------------------------
(* The client and the handlers: statuses and bodies *)

\* the statuses the operation of a tool takes as success
Accepted(tool) ==
    IF tool = "create_time_off_request" THEN {StatusOK, StatusCreated} ELSE {StatusOK}

\* the handler has returned, having received a response and read its body
ReceivedWhole == pc = "done" /\ resp.kind = "response" /\ ~resp.readErr

\* the tool's handler calls an operation of the client
HasOperation(tool) ==
    tool \in {"get_time_off_requests", "get_time_off_balance", "create_time_off_request"}

---------------------------------------------------------------------------
(* The shape of a response body *)

\* The wire value v fits a field of type T, and the object v fits the
\* record T: a string for a string, a boolean for a boolean, a number or a
\* numeric or empty string for a FlexibleFloat, a string, an object or an
\* array of note objects for a FlexibleNotes, an object of strings for a
\* map, an object whose fields fit for a record; a null fits every field.
RECURSIVE Fits(_, _), IsRecord(_, _)
Fits(T, v) ==
    CASE T = "string" -> v.t \in {"str", "null"}
      [] T = "bool"   -> v.t \in {"bool", "null"}
      [] T = "FlexibleFloat" ->
           \/ v.t \in {"num", "null"}
           \/ v.t = "str" /\ (v.s = EmptyStr \/ ParseFloat(v.s).ok)
      [] T = "FlexibleNotes" ->
           \/ v.t \in {"str", "obj", "null"}
           \/ v.t = "arr" /\ \A i \in 1..Len(v.elems) :
                                v.elems[i].t = "null" \/ IsNoteShaped(v.elems[i])
      [] T = "map[string]string" ->
           \/ v.t = "null"
           \/ v.t = "obj" /\ \A i \in 1..Len(v.members) : v.members[i].v.t \in {"str", "null"}
      [] OTHER -> v.t = "null" \/ IsRecord(T, v)

IsRecord(T, v) ==
    /\ v.t = "obj"
    /\ \A i \in 1..Len(v.members) :
          v.members[i].k \in FieldSet(T) => Fits(FieldType(T, v.members[i].k), v.members[i].v)

\* the record type of a tool's operation
RecordType(tool) == IF tool = "get_time_off_balance" THEN "TimeOffBalance" ELSE "TimeOffRequest"

\* the body has the shape the tool's operation expects: an array of records
\* for the two fetches, one record for create
ExpectedShape(tool, body) ==
    /\ body.valid
    /\ IF tool = "create_time_off_request" THEN IsRecord(RecordType(tool), body.json)
       ELSE /\ body.json.t = "arr"
            /\ \A i \in 1..Len(body.json.elems) : IsRecord(RecordType(tool), body.json.elems[i])

\* the same, or null in the place of the body or of a record of the array
ExpectedOrNull(tool, body) ==
    /\ body.valid
    /\ \/ body.json.t = "null"
       \/ IF tool = "create_time_off_request" THEN IsRecord(RecordType(tool), body.json)
          ELSE /\ body.json.t = "arr"
               /\ \A i \in 1..Len(body.json.elems) :
                     \/ body.json.elems[i].t = "null"
                     \/ IsRecord(RecordType(tool), body.json.elems[i])

\* an operation has got a response of an accepted status, body read whole
GotSuccessStatus ==
    ReceivedWhole /\ HasOperation(call.tool) /\ resp.status \in Accepted(call.tool)

\* the operation failed with a decode error and returned no records
DecodeFailed ==
    /\ ret.called
    /\ ret.err.kind = "decoding response"
    /\ ret.result = NilResult
    /\ res.IsError

\* C13 as stated: on a success status, a body that is malformed or not of
\* the expected shape (an array of records for the two fetches, one record
\* for create; a numeric or notes field of no accepted shape included)
\* makes the operation fail with a decode error and return no records.
C13_DecodeErrorForEveryMismatch ==
    (GotSuccessStatus /\ ~ExpectedShape(call.tool, resp.body)) => DecodeFailed

\* C13 as amended: the same for every such body except JSON null, as the
\* body or as a record of the array: a null body gives no error and the nil
\* list (for create, a record of zero values), a null in the array a record
\* of zero values.  Every other body of the expected shape decodes.
C13_DecodeErrorExceptNull ==
    GotSuccessStatus =>
        /\ ~ExpectedOrNull(call.tool, resp.body) => DecodeFailed
        /\ ExpectedOrNull(call.tool, resp.body) => ret.called /\ ret.err = NilErr
        /\ (resp.body.valid /\ resp.body.json.t = "null") =>
              ret.result = IF call.tool = "create_time_off_request"
                           THEN Result(<<ZeroValue("TimeOffRequest")>>)
                           ELSE NilResult

\* GetTimeOffBalance has failed on an array whose first record is well
\* formed and whose second is not, and returned neither
C13_Witness ==
    /\ GotSuccessStatus
    /\ call.tool = "get_time_off_balance"
    /\ resp.body.valid
    /\ resp.body.json.t = "arr"
    /\ Len(resp.body.json.elems) = 2
    /\ IsRecord("TimeOffBalance", resp.body.json.elems[1])
    /\ ~IsRecord("TimeOffBalance", resp.body.json.elems[2])
    /\ DecodeFailed

---------------------------------------------------------------------------
(* Result or failure *)

\* a client operation has returned
Returned == pc = "done" /\ ret.called

\* C14 as stated: for every upstream outcome, a transport failure or a
\* response of any status and body, every client operation returns either a
\* non-nil result and no error, or an error and no result; never no result
\* and no error.
C14_ResultOrFailure ==
    Returned =>
        \/ ret.err = NilErr /\ ~ret.result.isNil
        \/ ret.err # NilErr /\ ret.result.isNil

\* C14 as amended: the same, except that the two fetches return the nil
\* list and no error when the status is 200 and the body is JSON null.
C14_ResultOrFailureExceptNullBody ==
    Returned =>
        \/ ret.err = NilErr /\ ~ret.result.isNil
        \/ ret.err # NilErr /\ ret.result.isNil
        \/ /\ ret.err = NilErr /\ ret.result.isNil
           /\ call.tool \in {"get_time_off_requests", "get_time_off_balance"}
           /\ ReceivedWhole /\ resp.status = StatusOK
           /\ resp.body = WellFormed(JNull)

\* GetTimeOffRequests has returned neither records nor an error for the
\* body null
C14_Witness ==
    /\ Returned
    /\ call.tool = "get_time_off_requests"
    /\ resp.status = StatusOK
    /\ resp.body = WellFormed(JNull)
    /\ ret.err = NilErr
    /\ ret.result.isNil
    /\ ~res.IsError

---------------------------------------------------------------------------
(* The balances *)

\* the value of the member of the object d named key
FieldOf(d, key) == d.members[CHOOSE i \in 1..Len(d.members) : d.members[i].k = key].v

\* d is a balance object whose balance and usedYearToDate are decimals,
\* written as numbers or as strings
IsBalanceObject(d) ==
    /\ IsRecord("TimeOffBalance", d)
    /\ \A key \in {<<"balance">>, <<"usedYearToDate">>} :
          /\ HasKey(d, key)
          /\ FieldOf(d, key).t \in {"num", "str"}
          /\ IsDecimalNumeral(FieldOf(d, key).s)

\* C15: on a 200 response whose body is an array of n balance objects,
\* GetTimeOffBalance returns exactly n records in the order of the wire,
\* the balance and usedYearToDate of each equal to the decimal the wire
\* field holds, be it a string or a number.
C15_BalancesInOrder ==
    (/\ GotSuccessStatus
     /\ call.tool = "get_time_off_balance"
     /\ resp.body.valid
     /\ resp.body.json.t = "arr"
     /\ \A i \in 1..Len(resp.body.json.elems) : IsBalanceObject(resp.body.json.elems[i]))
    => /\ ret.err = NilErr
       /\ ~ret.result.isNil
       /\ Len(ret.result.elems) = Len(resp.body.json.elems)
       /\ \A i \in 1..Len(ret.result.elems) :
             \A key \in {<<"balance">>, <<"usedYearToDate">>} :
                Denotes(ret.result.elems[i][key], FieldOf(resp.body.json.elems[i], key).s)

\* two balances have been returned, the first 3.42 from the string "3.42",
\* the second 1 from the number 1
C15_Witness ==
    /\ GotSuccessStatus
    /\ call.tool = "get_time_off_balance"
    /\ resp.body.valid
    /\ Len(resp.body.json.elems) = 2
    /\ FieldOf(resp.body.json.elems[1], <<"balance">>) = JStr(<<"3", ".", "4", "2">>)
    /\ FieldOf(resp.body.json.elems[2], <<"balance">>) = JNum(<<"1">>)
    /\ ret.err = NilErr
    /\ Len(ret.result.elems) = 2
    /\ ret.result.elems[1][<<"balance">>] = Finite(FALSE, 342, -2)
    /\ ret.result.elems[2][<<"balance">>] = Finite(FALSE, 1, 0)

---------------------------------------------------------------------------
(* The dates of a requests query *)

\* the text of an optional argument: empty when it is not given
ArgText(arg) == IF arg.kind = "string" THEN arg.s ELSE EmptyStr

\* the handler of get_time_off_requests has issued its request
RequestsSent == call.tool = "get_time_off_requests" /\ reqs # <<>>

\* the URL of a requests query for the dates start and end
RequestsURL(start, end) ==
    <<"https://", "acme", ".bamboohr.com/api/v1", "/time_off/requests", "?start=">> \o start
        \o <<"&end=">> \o end \o <<"&employeeId=">> \o ArgText(call.employeeId)

\* C16: if start or end is empty, GetTimeOffRequests asks for the first and
\* the last day of the current year, YYYY-01-01 and YYYY-12-31, and a date
\* that was supplied alone is discarded; if both are non-empty it asks for
\* exactly the dates supplied.
C16_DateDefaulting ==
    RequestsSent =>
        /\ Len(reqs) = 1
        /\ IF ArgText(call.start) = EmptyStr \/ ArgText(call.end) = EmptyStr
           THEN reqs[1].url = RequestsURL(IntDigits(call.year) \o <<"-01-01">>,
                                          IntDigits(call.year) \o <<"-12-31">>)
           ELSE reqs[1].url = RequestsURL(call.start.s, call.end.s)

\* a start date supplied without an end date has been replaced
C16_Witness ==
    /\ RequestsSent
    /\ call.start = StringArg(<<"2025-09-05">>)
    /\ call.end = NoArg
    /\ call.year = 2026
    /\ reqs[1].url = RequestsURL(<<"2", "0", "2", "6", "-01-01">>, <<"2", "0", "2", "6", "-12-31">>)

---------------------------------------------------------------------------
(* The body of a create request *)

\* the handler of create_time_off_request has passed its checks and issued
\* the request
CreateSent == call.tool = "create_time_off_request" /\ reqs # <<>>

\* the amount of the invocation: the digits given, 1 when none are
AmountOf(request) ==
    IF request.amount.kind = "string" THEN DigitsVal(request.amount.s) ELSE 1

\* the object body has a member key of the value val
Holds(body, key, val) == HasKey(body, key) /\ FieldOf(body, key) = val

\* what the body sent holds besides the amount: the status "requested", the
\* dates and the type of the arguments, one note of the employee if and
\* only if employeeNote is not empty, and one date of the start and the
\* amount
BodyOfArguments(body, request) ==
    /\ body.t = "obj"
    /\ Holds(body, <<"status">>, JStr(<<"requested">>))
    /\ Holds(body, <<"start">>, JStr(request.start.s))
    /\ Holds(body, <<"end">>, JStr(request.end.s))
    /\ Holds(body, <<"timeOffTypeId">>, JNum(IntDigits(DigitsVal(request.timeOffTypeId.s))))
    /\ IF ArgText(request.employeeNote) # EmptyStr
       THEN Holds(body, <<"notes">>,
                  JArr(<<JObj(<<Member(<<"from">>, JStr(<<"employee">>)),
                                Member(<<"note">>, JStr(request.employeeNote.s))>>)>>))
       ELSE ~HasKey(body, <<"notes">>)
    /\ Holds(body, <<"dates">>,
             JArr(<<JObj(<<Member(<<"ymd">>, JStr(request.start.s)),
                           Member(<<"amount">>, JNum(IntDigits(AmountOf(request))))>>)>>))

\* C17: for every create_time_off_request invocation that passes the
\* checks, the body sent upstream holds the status "requested", start and
\* end equal to the arguments, timeOffTypeId equal to the integer parsed,
\* amount equal to the amount parsed (1 when omitted), a notes array of
\* exactly the one entry {from: "employee", note: employeeNote} if and only
\* if employeeNote is not empty, and a dates list of exactly the one entry
\* {ymd: start, amount: amount}, whatever the end date.
C17_BodyOfCreate ==
    CreateSent =>
        /\ Len(reqs) = 1
        /\ BodyOfArguments(reqs[1].body, call)
        /\ Holds(reqs[1].body, <<"amount">>, JNum(IntDigits(AmountOf(call))))

\* What of C17 the code does: all of it when the amount is not 0; for the
\* amount 0 the body has no amount, and the date's amount is 0.
C17_BodyUnlessZeroAmount ==
    CreateSent =>
        /\ Len(reqs) = 1
        /\ BodyOfArguments(reqs[1].body, call)
        /\ IF AmountOf(call) = 0 THEN ~HasKey(reqs[1].body, <<"amount">>)
           ELSE Holds(reqs[1].body, <<"amount">>, JNum(IntDigits(AmountOf(call))))

---------------------------------------------------------------------------
(* The checks of the arguments *)

\* the text is that of an integer: digits, after a sign or not
IntegerText(s) ==
    LET ds == IF s # EmptyStr /\ s[1] \in {"-", "+"} THEN Tail(s) ELSE s
    IN  ds # EmptyStr /\ \A i \in 1..Len(ds) : ds[i] \in Digits

\* the text is that of a number, decimals included
NumericText(s) == ParseFloat(s).ok

\* the required argument is not there as a string
Missing(arg) == arg.kind # "string"

\* one check of a handler: whether the invocation fails it, and how the
\* message of the failure begins
Check(failed, text) == [failed |-> failed, text |-> text]

\* the checks of an invocation's handler, in the order of the tool's
\* arguments: employeeId, and for create timeOffTypeId, start, end and amount
Checks(request) ==
    LET id == <<Check(Missing(request.employeeId), "employeeId is required: "),
                Check(~IntegerText(ArgText(request.employeeId)),
                      "employeeId must be a valid integer")>>
    IN  CASE request.tool = "list_employees" -> <<>>
          [] request.tool = "create_time_off_request" ->
               id \o <<Check(Missing(request.timeOffTypeId), "timeOffTypeId is required: "),
                       Check(~IntegerText(ArgText(request.timeOffTypeId)),
                             "timeOffTypeId must be a valid integer"),
                       Check(Missing(request.start), "start date is required: "),
                       Check(Missing(request.end), "end date is required: "),
                       Check(~Missing(request.amount) /\ ~IntegerText(ArgText(request.amount)),
                             "amount must be a valid integer")>>
          [] OTHER -> id

\* the invocation fails one of the checks
Invalid(request) == \E i \in 1..Len(Checks(request)) : Checks(request)[i].failed

\* the first check the invocation fails
FirstFailure(request) ==
    LET cs == Checks(request)
    IN  cs[CHOOSE i \in 1..Len(cs) : cs[i].failed /\ \A j \in 1..(i - 1) : ~cs[j].failed]

\* the invocation fails no check but, maybe, that of the amount
ValidButAmount(request) ==
    \A i \in 1..Len(Checks(request)) :
       Checks(request)[i].failed => Checks(request)[i].text = "amount must be a valid integer"

\* the handler is past its checks: it waits for the upstream or has returned
PastChecks == pc \in {"waiting", "done"}

---------------------------------------------------------------------------
(* The amount of a new request *)

\* the result is the error of the amount
AmountRefused == res.IsError /\ res.text = <<"amount must be a valid integer">>

\* C18: the create tool takes the amount as a string of a number of days,
\* decimals such as '0.5' and '2.5' included: every numeric amount is parsed
\* and the request is sent, and only an amount that is no number gives the
\* validation error.
C18_DecimalAmounts ==
    (PastChecks /\ call.tool = "create_time_off_request" /\ ValidButAmount(call)) =>
        IF Missing(call.amount) \/ NumericText(call.amount.s)
        THEN reqs # <<>> /\ ~AmountRefused
        ELSE reqs = <<>> /\ AmountRefused

\* What of C18 the code does: the same of the amounts that are integers;
\* a decimal amount gives the validation error and no request.
C18_IntegerAmounts ==
    (PastChecks /\ call.tool = "create_time_off_request" /\ ValidButAmount(call)) =>
        IF Missing(call.amount) \/ IntegerText(call.amount.s)
        THEN reqs # <<>> /\ ~AmountRefused
        ELSE reqs = <<>> /\ AmountRefused

---------------------------------------------------------------------------
(* Failures of an invocation *)

\* the upstream could not be reached, or its response not read to the end
TransportFailed == resp.kind = "error" \/ (resp.kind = "response" /\ resp.readErr)

\* the upstream answered with a status that is no success
StatusRefused == resp.kind = "response" /\ resp.status \notin Accepted(call.tool)

\* the client operation returned an error: that of the request, of the
\* status or of the decoding
OperationFailed == ret.called /\ ret.err # NilErr

\* the records the operation returned cannot be written as JSON
SerialisationFailed ==
    /\ ret.called
    /\ ret.err = NilErr
    /\ JSONMarshalIndent(RecordType(call.tool), ret.result,
                         call.tool = "create_time_off_request").err # NilErr

\* the invocation has failed
Failed ==
    \/ Invalid(call)
    \/ TransportFailed
    \/ StatusRefused
    \/ OperationFailed
    \/ SerialisationFailed

\* C19: every failure of an invocation, of every handler (an argument
\* missing or malformed, a transport failure, a status that is no success, a
\* decode failure, a failure to serialise the result), is returned as an
\* error result of the tool with a nil Go error; no handler returns a Go
\* error or ends the process, and the server takes the next invocation.
C19_FailuresAreToolErrors ==
    /\ pc = "done" =>
          /\ res.returned
          /\ res.goErr = NilErr
          /\ Failed => res.IsError
          /\ ENABLED Finish
    /\ pc = "idle" => ENABLED (Reject \/ Send)

\* the records of a response were decoded and could not be written out
C19_Witness ==
    /\ pc = "done"
    /\ SerialisationFailed
    /\ res.IsError
    /\ res.goErr = NilErr
    /\ res.text[1] = "Failed to marshal response: "

---------------------------------------------------------------------------
(* Invocations that fail a check *)

---------------------------------------------------------------------------
(* The headers of a request *)

\* C21: every HTTP request the client issues, on either base URL and for
\* every operation, carries Basic authentication with the API key as the
\* user name and an empty password, and an Accept header of
\* application/json; it has a Content-Type header of application/json if
\* and only if it has a body.
C21_Headers ==
    \A i \in 1..Len(reqs) :
       /\ reqs[i].username = client.APIKey
       /\ reqs[i].password = EmptyStr
       /\ reqs[i].accept = <<"application/json">>
       /\ reqs[i].contentType = IF reqs[i].body = NoBytes THEN EmptyStr
                                ELSE <<"application/json">>

\* a request without a body went out: authenticated, and of no Content-Type
C21_Witness ==
    /\ pc = "waiting"
    /\ call.tool = "get_time_off_balance"
    /\ Len(reqs) = 1
    /\ reqs[1].username = <<"secret">>
    /\ reqs[1].body = NoBytes
    /\ reqs[1].contentType = EmptyStr

---------------------------------------------------------------------------
(* The client specification: a caller of the package, as its tests are,    *)
(* constructs a client of any company and key, may point its BaseURL at    *)
(* another server, and calls the operations through their handlers.        *)

\* the company subdomains and API keys a client is constructed of
Companies == {EmptyStr, <<"acme">>, <<"my", "-co">>}

APIKeys == {EmptyStr, <<"secret">>, <<"sk_", "1">>}

\* client.BaseURL = server.URL
ServerURLs == {<<"http://127.0.0.1:8080">>}

\* one invocation of each tool, of arguments that pass the checks
ClientCalls ==
    {Call("get_time_off_requests", StringArg(<<"1", "5", "7">>), NoArg,
          StringArg(<<"2025-09-05">>), StringArg(<<"2025-09-08">>), NoArg, NoArg, 2025),
     Call("get_time_off_balance", StringArg(<<"1", "5", "7">>), NoArg, NoArg, NoArg, NoArg, NoArg, 0),
     Call("list_employees", NoArg, NoArg, NoArg, NoArg, NoArg, NoArg, 0),
     Call("create_time_off_request", StringArg(<<"1", "5", "7">>), StringArg(<<"2", "7">>),
          StringArg(<<"2025-09-05">>), StringArg(<<"2025-09-08">>), StringArg(<<"1">>), NoArg, 0)}

\* what comes of a request of the client specification
ClientOutcomes ==
    {TransportFailure(<<"context deadline exceeded">>),
     Response(404, Malformed(<<"Not Found">>), FALSE)}

InitClient ==
    /\ CodecIdle
    /\ ServerIdle
    /\ cfg = NoClient
    /\ \E company \in Companies, apiKey \in APIKeys :
          main = Process("test", <<>>, apiKey, company, 0, {})
    /\ inv = [w \in Workers |-> NoInvocation]

\* client := NewBambooHRClient(company, apiKey)
Construct ==
    /\ main.pc = "test"
    /\ cfg' = NewBambooHRClient(main.company, main.apiKey)
    /\ main' = [main EXCEPT !.pc = "constructed"]
    /\ UNCHANGED inv
    /\ UNCHANGED serverVars
    /\ UNCHANGED codecVars

\* client.BaseURL = server.URL
SetBaseURL ==
    /\ main.pc = "constructed"
    /\ ~cfg.isNil
    /\ pc = "idle"
    /\ \E url \in ServerURLs : cfg' = [cfg EXCEPT !.BaseURL = url]
    /\ main' = [main EXCEPT !.pc = "rebased"]
    /\ UNCHANGED inv
    /\ UNCHANGED serverVars
    /\ UNCHANGED codecVars

\* a handler of the client is called and issues its request
Operate ==
    /\ ~cfg.isNil
    /\ pc = "idle"
    /\ \E request \in ClientCalls :
          \E h \in {Handle(cfg, request, NoResp, <<>>)} :
             /\ call' = request
             /\ reqs' = h.sent
    /\ pc' = "waiting"
    /\ UNCHANGED <<resp, ret, res>>
    /\ UNCHANGED codecVars
    /\ UNCHANGED processVars

\* the outcome of the request arrives and the handler returns
Complete ==
    /\ ~cfg.isNil
    /\ pc = "waiting"
    /\ \E outcome \in ClientOutcomes :
          \E h \in {Handle(cfg, call, outcome, <<>>)} :
             /\ resp' = outcome
             /\ reqs' = h.sent
             /\ ret' = h.ret
             /\ res' = h.res
    /\ pc' = "done"
    /\ UNCHANGED call
    /\ UNCHANGED codecVars
    /\ UNCHANGED processVars

NextClient == Construct \/ SetBaseURL \/ Operate \/ Complete \/ Finish

SpecClient == InitClient /\ [][NextClient]_vars

---------------------------------------------------------------------------
(* The URL of each operation *)

\* the two base URLs of a client: the one of its field, and the one
\* makeRequestV1 derives of its company
GatewayBase(c) == c.BaseURL

V1Base(c) == <<"https://">> \o c.Company \o <<".bamboohr.com/api/v1">>

\* the text begins with the prefix
HasPrefix(text, prefix) ==
    Len(text) >= Len(prefix) /\ SubSeq(text, 1, Len(prefix)) = prefix

\* the URL is the path under the base, with or without a query
Targets(url, base, path) ==
    \/ url = base \o path
    \/ HasPrefix(url, base \o path \o <<"?start=">>)

\* the method, base and path of the tool's operation, id being the employee
Route(tool, c, id) ==
    CASE tool = "get_time_off_requests" ->
           [method |-> "GET", base |-> V1Base(c), other |-> GatewayBase(c),
            path |-> <<"/time_off/requests">>]
      [] tool = "create_time_off_request" ->
           [method |-> "PUT", base |-> V1Base(c), other |-> GatewayBase(c),
            path |-> <<"/employees/">> \o id \o <<"/time_off/request">>]
      [] tool = "get_time_off_balance" ->
           [method |-> "GET", base |-> GatewayBase(c), other |-> V1Base(c),
            path |-> <<"/employees/">> \o id \o <<"/time_off/calculator">>]
      [] tool = "list_employees" ->
           [method |-> "GET", base |-> GatewayBase(c), other |-> V1Base(c),
            path |-> <<"/employees/directory">>]

\* C22: the method, base URL and path of each operation are fixed: get
\* requests is GET {v1-base}/time_off/requests, create is PUT
\* {v1-base}/employees/{id}/time_off/request, balance is GET
\* {gateway-base}/employees/{id}/time_off/calculator and directory is GET
\* {gateway-base}/employees/directory; no operation uses the other base URL,
\* and a change of the client's BaseURL field changes the target of the
\* gateway operations only.
C22_Routes ==
    \A i \in 1..Len(reqs) :
       \E route \in {Route(call.tool, cfg, ArgText(call.employeeId))} :
          /\ reqs[i].method = route.method
          /\ Targets(reqs[i].url, route.base, route.path)
          /\ ~HasPrefix(reqs[i].url, route.other)

\* a client whose BaseURL was changed sends the requests query where it
\* did before, to the v1 base of its company
C22_Witness ==
    /\ pc = "waiting"
    /\ call.tool = "get_time_off_requests"
    /\ cfg.Company = <<"acme">>
    /\ cfg.BaseURL = <<"http://127.0.0.1:8080">>
    /\ Len(reqs) = 1
    /\ HasPrefix(reqs[1].url, <<"https://", "acme", ".bamboohr.com/api/v1", "/time_off/requests">>)

---------------------------------------------------------------------------
(* The construction of a client *)

\* C24: NewBambooHRClient(company, apiKey) returns, for every pair of
\* strings, the empty ones included, a client that is not nil, whose
\* Company and APIKey are the arguments, whose BaseURL is
\* https://{company}.bamboohr.com/api/gateway.php/{company}/v1 and whose
\* transport has a timeout of 30 seconds; it validates nothing.
C24_Construction ==
    /\ main.pc = "test" => ENABLED Construct
    /\ main.pc = "constructed" =>
          /\ ~cfg.isNil
          /\ cfg.Company = main.company
          /\ cfg.APIKey = main.apiKey
          /\ cfg.BaseURL = <<"https://">> \o main.company \o <<".bamboohr.com/api/gateway.php/">>
                              \o main.company \o <<"/v1">>
          /\ cfg.Timeout = 30

\* a client was constructed of an empty company and an empty key
C24_Witness ==
    /\ main.pc = "constructed"
    /\ main.company = EmptyStr
    /\ main.apiKey = EmptyStr
    /\ ~cfg.isNil
    /\ cfg.BaseURL = <<"https://", ".bamboohr.com/api/gateway.php/", "/v1">>

---------------------------------------------------------------------------
(* Arrays of notes *)

\* the element of an array decodes as a note object: it is an object whose
\* "from" and "note" are strings or null, or it is null
ElemDecodes(e) == e.t = "null" \/ IsNoteShaped(e)

\* what a target may hold before a decode
PriorNotes == {NilNotes, Notes(<<>>), Notes(<<Note(<<"employee">>, <<"Sick day">>)>>)}

\* C25: the decoding of a JSON array as notes decodes each element as a
\* note object, in order; if an element does not decode as a note object
\* the whole decode fails with an error and the notes of the target are
\* left as they were (no partial result).
C25_ArrayAllOrNothing ==
    (op = "UnmarshalJSON" /\ data.t = "arr") =>
        IF \A i \in 1..Len(data.elems) : ElemDecodes(data.elems[i])
        THEN /\ err = NilErr
             /\ fn = Notes([i \in 1..Len(data.elems) |->
                              Note(TextOf(data.elems[i], <<"from">>),
                                   TextOf(data.elems[i], <<"note">>))])
        ELSE /\ err # NilErr
             /\ fn = NilNotes
             /\ \A fn0 \in PriorNotes :
                   FlexibleNotes_UnmarshalJSON(data, fn0, <<>>) = [err |-> NotesErr, Notes |-> fn0]

\* an array of a note object and a number was refused, and the note of the
\* object was not kept
C25_Witness ==
    /\ op = "UnmarshalJSON"
    /\ data = JArr(<<JObj(<<Member(<<"from">>, JStr(<<"employee">>))>>), JNum(<<"1">>)>>)
    /\ err = NotesErr
    /\ fn = NilNotes

---------------------------------------------------------------------------
(* The requests of an invocation *)

\* C26: an invocation of a tool issues one upstream request at most: after
\* a transport failure, a status that is no success or a decode failure it
\* returns the error and issues no other request; and no request is issued
\* outside an invocation (no background task, no cache).
C26_OneRequest ==
    /\ [](/\ Len(reqs) <= 1
          /\ call = NoCall => reqs = <<>>
          /\ pc = "done" /\ (TransportFailed \/ StatusRefused \/ OperationFailed) => res.IsError)
    /\ [][reqs' # reqs =>
             \/ pc = "idle" /\ reqs = <<>> /\ Len(reqs') = 1 /\ call' # NoCall
             \/ pc = "done" /\ reqs' = <<>>]_vars

\* an invocation whose one request failed in transport has returned
C26_Witness ==
    /\ pc = "done"
    /\ call.tool = "get_time_off_requests"
    /\ resp.kind = "error"
    /\ Len(reqs) = 1
    /\ res.IsError

---------------------------------------------------------------------------
(* The end of an invocation *)

\* the step of Respond as pc shows it: the upstream call of the handler
\* ends and the handler returns
Returning == pc = "waiting" /\ pc' = "done"

\* The server with the upstream call of a handler coming to its end: the
\* response arrives, the transport fails, or the 30 seconds of the client's
\* Timeout elapse and Do returns "context deadline exceeded"; and with the
\* result of a handler that returned written out.
SpecServerFair == SpecServer /\ WF_pc(Returning) /\ WF_vars(Finish)

\* the upstream call ended because the timeout of the client elapsed
TimedOut == resp = TransportFailure(<<"context deadline exceeded">>)

\* C28: every invocation of a tool returns in the end, with one result,
\* the text of a success or the error of the tool: its handler waits for
\* nothing but its one upstream call, which ends when a response arrives,
\* the transport fails or the timeout elapses, and a timeout gives an error
\* result, not an invocation left pending.
C28_EventuallyOneResult ==
    /\ (call # NoCall) ~> (pc = "done" /\ res.returned)
    /\ [](pc = "done" => res.returned /\ res.goErr = NilErr)
    /\ [](pc = "done" /\ TimedOut => res.IsError)
    /\ [][pc = "waiting" => pc' = "done" /\ resp' # NoResp]_vars

\* the request of a create invocation timed out, and the invocation has
\* returned the error
C28_Witness ==
    /\ pc = "done"
    /\ call.tool = "create_time_off_request"
    /\ TimedOut
    /\ res.returned
    /\ res.IsError
    /\ res.text[1] = "Failed to create time-off request: "

---------------------------------------------------------------------------
(* Objects as notes *)

\* C29: the decoding of a JSON object as notes never fails and gives
\* exactly one Note: an object that has a "from" key or a non-null "note"
\* key and does not decode as a note object (a "from" that is no string,
\* for one) is flattened as a generic object and is no error, and an object
\* none of whose values is a string gives one Note of empty from and
\* empty text.
C29_ObjectNeverFails ==
    NotesDecoded /\ data.t = "obj" =>
        /\ err = NilErr
        /\ ~fn.isNil
        /\ Len(fn.elems) = 1
        /\ HasNoteKeys(data) /\ ~IsNoteShaped(data) =>
              /\ fn.elems[1].From = EmptyStr
              /\ \E ms \in Arrangements(StringMembers(data)) :
                    fn.elems[1].Note = JoinFragments(ms)
        /\ StringMembers(data) = <<>> => fn = Notes(<<Note(EmptyStr, EmptyStr)>>)

\* an object whose "from" is a number was flattened: its note is in the
\* text, under its key
C29_Witness ==
    /\ NotesDecoded
    /\ data = JObj(<<Member(<<"from">>, JNum(<<"1">>)), Member(<<"note">>, JStr(<<"Sick day">>))>>)
    /\ err = NilErr
    /\ fn = Notes(<<Note(EmptyStr, <<"note", ": ", "Sick day">>)>>)

---------------------------------------------------------------------------
(* The query of a requests URL, as the upstream reads it *)

\* the atoms of the format of the query, taken apart at "?", "&" and "="
Lex(atom) ==
    CASE atom = "?start="      -> <<"?", "start", "=">>
      [] atom = "&end="        -> <<"&", "end", "=">>
      [] atom = "&employeeId=" -> <<"&", "employeeId", "=">>
      [] OTHER                 -> <<atom>>

RECURSIVE LexAll(_)
LexAll(text) == IF text = <<>> THEN <<>> ELSE Lex(Head(text)) \o LexAll(Tail(text))

\* the positions of the separator in the text
Positions(text, sep) == {i \in 1..Len(text) : text[i] = sep}

\* the text cut at every separator
RECURSIVE Split(_, _)
Split(text, sep) ==
    IF Positions(text, sep) = {} THEN <<text>>
    ELSE LET i == CHOOSE k \in Positions(text, sep) : \A j \in Positions(text, sep) : k <= j
         IN  <<SubSeq(text, 1, i - 1)>> \o Split(SubSeq(text, i + 1, Len(text)), sep)

\* name=value, cut at the first "="
Param(part) ==
    IF Positions(part, "=") = {} THEN [name |-> part, value |-> EmptyStr]
    ELSE LET i == CHOOSE k \in Positions(part, "=") : \A j \in Positions(part, "=") : k <= j
         IN  [name |-> SubSeq(part, 1, i - 1), value |-> SubSeq(part, i + 1, Len(part))]

\* the parameters of the URL's query: what follows the first "?", cut at
\* every "&", each part cut at its first "="
QueryParams(url) ==
    LET text  == LexAll(url)
        q     == CHOOSE k \in Positions(text, "?") : \A j \in Positions(text, "?") : k <= j
        parts == Split(SubSeq(text, q + 1, Len(text)), "&")
    IN  [i \in 1..Len(parts) |-> Param(parts[i])]

\* the dates GetTimeOffRequests asks for: those of the arguments, or the
\* year's when one of them is empty
EffectiveDates ==
    IF ArgText(call.start) = EmptyStr \/ ArgText(call.end) = EmptyStr
    THEN [start |-> IntDigits(call.year) \o <<"-01-01">>, end |-> IntDigits(call.year) \o <<"-12-31">>]
    ELSE [start |-> call.start.s, end |-> call.end.s]

\* the query is of the three parameters start, end and employeeId, once
\* each, of the effective dates and the employee of the invocation
ThreeParams(ps) ==
    /\ Len(ps) = 3
    /\ ps[1] = [name |-> <<"start">>, value |-> EffectiveDates.start]
    /\ ps[2] = [name |-> <<"end">>, value |-> EffectiveDates.end]
    /\ ps[3] = [name |-> <<"employeeId">>, value |-> IntDigits(DigitsVal(call.employeeId.s))]

\* the text holds a character that ends a parameter or the query
HasSeparator(text) == \E i \in 1..Len(text) : text[i] \in {"&", "=", "#", "?"}

\* C30: for every get_time_off_requests invocation that passes the checks,
\* whatever characters start and end hold, the query of the request is of
\* exactly the three parameters start, end and employeeId, each once, with
\* employeeId the integer of the argument and start and end the effective
\* dates.
C30_QueryOfThree ==
    RequestsSent => ThreeParams(QueryParams(reqs[1].url))

\* What of C30 the code does: the same for dates that hold no "&", "=",
\* "#" or "?"; the dates are written into the query as they are.
C30_QueryOfPlainDates ==
    (RequestsSent /\ ~HasSeparator(EffectiveDates.start) /\ ~HasSeparator(EffectiveDates.end)) =>
        ThreeParams(QueryParams(reqs[1].url))

---------------------------------------------------------------------------
(* The process specification: main reads its arguments and environment,    *)
(* constructs the client, adds the tools and serves; the server runs the   *)
(* handlers of the invocations that arrive, one to a worker, at once.      *)

\* the arguments after the program's name
Arguments == {<<>>, <<"--version">>, <<"-v">>}

\* os.Getenv of a variable: the empty string when it is not set
Environment == {EmptyStr, <<"secret">>} \X {EmptyStr, <<"acme">>}

\* the tools main adds to the server
Tools ==
    {"get_time_off_requests", "get_time_off_balance", "list_employees", "create_time_off_request"}

\* len(os.Args) > 1 && (os.Args[1] == "--version" || os.Args[1] == "-v")
VersionAsked(args) == Len(args) > 0 /\ args[1] \in {"--version", "-v"}

\* a check that asks for the key alone
ConfigError_KeyOnly(apiKey, company) == apiKey = EmptyStr

\* if apiKey == "" { .. os.Exit(1) }; if company == "" { .. os.Exit(1) }
ConfigError(apiKey, company) == apiKey = EmptyStr \/ company = EmptyStr

\* a handler that points the client it was given at another server
AfterHandler_Rebased(c, request) ==
    IF request.tool = "list_employees" THEN [c EXCEPT !.BaseURL = <<"http://127.0.0.1:8080">>]
    ELSE c

\* the client after a handler ran on request: the handlers and the
\* operations read c.BaseURL, c.APIKey, c.Company and c.HTTPClient, and
\* assign to none
AfterHandler(c, request) == c

\* the invocations and the outcomes of the process specification
ProcessCalls ==
    ClientCalls
    \cup {Call("get_time_off_balance", StringArg(<<"a">>), NoArg, NoArg, NoArg, NoArg, NoArg, 0)}

ProcessOutcomes == ClientOutcomes \cup {Response(StatusOK, WellFormed(JArr(<<>>)), FALSE)}

\* a worker at the point at of the invocation request, h being what the
\* handler gave so far and outcome what came of its request
Invocation(at, request, h, outcome) ==
    [pc |-> at, call |-> request, reqs |-> h.sent, resp |-> outcome, ret |-> h.ret, res |-> h.res]

InitProcess ==
    /\ CodecIdle
    /\ ServerIdle
    /\ cfg = NoClient
    /\ \E args \in Arguments, env \in Environment :
          main = Process("start", args, env[1], env[2], 0, {})
    /\ inv = [w \in Workers |-> NoInvocation]

\* main, to the end of its checks: the version is printed, or a variable
\* found missing, and the process exits; or it goes on
Configure ==
    /\ main.pc = "start"
    /\ main' = IF VersionAsked(main.arg) THEN [main EXCEPT !.pc = "exited", !.exit = 0]
               ELSE IF ConfigError(main.apiKey, main.company)
               THEN [main EXCEPT !.pc = "exited", !.exit = 1]
               ELSE [main EXCEPT !.pc = "configured"]
    /\ UNCHANGED <<cfg, inv>>
    /\ UNCHANGED serverVars
    /\ UNCHANGED codecVars

\* client := NewBambooHRClient(company, apiKey)
CreateClient ==
    /\ main.pc = "configured"
    /\ cfg' = NewBambooHRClient(main.company, main.apiKey)
    /\ main' = [main EXCEPT !.pc = "constructed"]
    /\ UNCHANGED inv
    /\ UNCHANGED serverVars
    /\ UNCHANGED codecVars

\* s.AddTool(.., handle..(client)), four times; server.ServeStdio(s)
Serve ==
    /\ main.pc = "constructed"
    /\ main' = [main EXCEPT !.pc = "serving", !.tools = Tools]
    /\ UNCHANGED <<cfg, inv>>
    /\ UNCHANGED serverVars
    /\ UNCHANGED codecVars

\* server.ServeStdio returns, with an error or without, and the process ends
Stop ==
    /\ main.pc = "serving"
    /\ \E status \in {0, 1} : main' = [main EXCEPT !.pc = "exited", !.exit = status]
    /\ UNCHANGED <<cfg, inv>>
    /\ UNCHANGED serverVars
    /\ UNCHANGED codecVars

\* an invocation of a tool arrives and its handler runs on a worker, until
\* it returns or has issued its request
Arrive(w) ==
    /\ main.pc = "serving"
    /\ inv[w].pc = "idle"
    /\ \E request \in ProcessCalls :
          /\ request.tool \in main.tools
          /\ \E h \in {Handle(cfg, request, NoResp, <<>>)} :
                inv' = [inv EXCEPT ![w] =
                          IF h.sent = <<>> THEN Invocation("done", request, h, NoResp)
                          ELSE Invocation("waiting", request, [h EXCEPT !.ret = NoRet, !.res = NoRes],
                                          NoResp)]
          /\ cfg' = AfterHandler(cfg, request)
    /\ UNCHANGED main
    /\ UNCHANGED serverVars
    /\ UNCHANGED codecVars

\* the outcome of a worker's request arrives and its handler returns
Answer(w) ==
    /\ main.pc = "serving"
    /\ inv[w].pc = "waiting"
    /\ \E outcome \in ProcessOutcomes :
          \E h \in {Handle(cfg, inv[w].call, outcome, <<>>)} :
             inv' = [inv EXCEPT ![w] = Invocation("done", inv[w].call, h, outcome)]
    /\ cfg' = AfterHandler(cfg, inv[w].call)
    /\ UNCHANGED main
    /\ UNCHANGED serverVars
    /\ UNCHANGED codecVars

\* the result of a worker's invocation is written out
Deliver(w) ==
    /\ main.pc = "serving"
    /\ inv[w].pc = "done"
    /\ inv' = [inv EXCEPT ![w] = NoInvocation]
    /\ UNCHANGED <<cfg, main>>
    /\ UNCHANGED serverVars
    /\ UNCHANGED codecVars

Work == \E w \in Workers : Arrive(w) \/ Answer(w) \/ Deliver(w)

NextProcess == Configure \/ CreateClient \/ Serve \/ Stop \/ Work

SpecProcess == InitProcess /\ [][NextProcess]_vars

---------------------------------------------------------------------------
(* Startup *)

\* the process was started to serve, not to print its version
Started == main.pc # "off" /\ ~VersionAsked(main.arg)

\* the API key or the company is missing
MissingConfig == main.apiKey = EmptyStr \/ main.company = EmptyStr

\* nothing of the server is there: no client, no tool, no invocation and
\* no request
NothingServed ==
    /\ cfg = NoClient
    /\ main.tools = {}
    /\ \A w \in Workers : inv[w] = NoInvocation

---------------------------------------------------------------------------
(* Invocations at once *)

\* the client as main constructed it
Constructed == NewBambooHRClient(main.company, main.apiKey)

\* what the worker's invocation gives when it runs alone, on the client as
\* constructed and with the outcome its request had
Alone(w) == Handle(Constructed, inv[w].call, inv[w].resp, <<>>)

====
